---------------------------- MODULE Spec2Model ----------------------------
(***************************************************************************)
(* Verification model of the nba-pipeline reconstruction engine:           *)
(*   lineups/transformers/lineup_states.py      (lineup timeline builder)  *)
(*   lineups/transformers/lineup_possessions.py (interval attribution)     *)
(*   lineups/transformers/possessions.py        (possession segmentation)  *)
(*   players/transformers/possessions.py        (per-player possessions)   *)
(*   players/transformers/court_time.py         (court-time tracker)       *)
(*   players/transformers/rim_defense.py        (rim-defense tracker)      *)
(*   lineups/transformers/lineup_ratings.py     (lineup ratings, filter)   *)
(* Data frames are sequences of records; NaN/None is the value NaN (-1) in  *)
(* an id column and the empty sequence for an optional row.                *)
(***************************************************************************)
EXTENDS Integers, Sequences, FiniteSets, TLC

VARIABLES
    pc,               \* position of the pipeline run
    err,              \* exception raised by the run ("none" when none)
    box_score_df,     \* box score rows
    teams,            \* list(starting_lineups.keys())
    current_lineups,  \* team -> set of player ids on court
    lineup_timeline,  \* rows appended by _build_lineup_timeline
    row_origin,       \* history: what appended each row of lineup_timeline
    cur_period,       \* period of the outer loop of _build_lineup_timeline
    last_clock,       \* game_clock_seconds of the last substitution row read
    sub_count,        \* substitution rows read so far
    last_sub,         \* history: last substitution row read and its outcome
    lineup_states,    \* output of extract_lineup_states
    match_idx,        \* possession rows read by match_lineups_to_possessions
    matched,          \* results list of match_lineups_to_possessions
    pbp,              \* play-by-play rows (after _prepare_pbp_data)
    possessions,      \* output of extract_possessions
    player_poss,      \* output of players' _identify_possessions
    intervals,        \* output of track_lineup_states
    rim_defense,      \* output of track_rim_defense
    lineup_possessions, \* lineup_possessions_df handed to calculate_lineup_ratings
    lineup_ratings,   \* output of calculate_lineup_ratings
    runs,             \* history: the rating table each run of the pipeline returned
    tie_order,        \* order in which the sort of this process leaves rows of equal key
    min_possessions,  \* threshold handed to filter_lineups
    filtered          \* output of filter_lineups

vars == <<pc, err, box_score_df, teams, current_lineups, lineup_timeline,
          row_origin, cur_period, last_clock, sub_count, last_sub,
          lineup_states, match_idx, matched, pbp, possessions, player_poss,
          intervals, rim_defense, lineup_possessions, lineup_ratings,
          runs, tie_order, min_possessions, filtered>>

lineupVars == <<box_score_df, teams, current_lineups, lineup_timeline,
                row_origin, cur_period, last_clock, sub_count, last_sub,
                lineup_states, match_idx, matched>>

possVars == <<pbp, possessions, player_poss>>

courtVars == <<intervals>>

rimVars == <<rim_defense>>

ratingVars == <<lineup_possessions, lineup_ratings>>

rerunVars == <<runs, tie_order>>

filterVars == <<min_possessions, filtered>>

-----------------------------------------------------------------------------
(* Bounds of the model *)

MaxSubs == 3          \* substitution rows read per game
MaxPossessions == 1   \* possession rows handed to match_lineups_to_possessions
MaxPlays == 3         \* rows of the play-by-play feed
MaxCourtEvents == 3   \* rows of the play-by-play feed read by track_lineup_states
MaxIntervals == 3     \* rows of lineup_intervals handed to track_rim_defense
MaxRimShots == 2      \* rows of enhanced_pbp_df handed to track_rim_defense
MaxRatingRows == 3    \* rows of lineup_possessions_df handed to calculate_lineup_ratings

-----------------------------------------------------------------------------
(* Generic helpers *)

Range(s) == {s[i] : i \in 1..Len(s)}

Min(S) == CHOOSE x \in S : \A y \in S : x <= y
Max(S) == CHOOSE x \in S : \A y \in S : x >= y

\* sorted(list(a_set)) for a set of integers
RECURSIVE SortedSeq(_)
SortedSeq(S) ==
    IF S = {} THEN <<>>
    ELSE LET m == Min(S) IN <<m>> \o SortedSeq(S \ {m})

\* sort keys are tuples of integers, compared column by column
LexLess(a, b) ==
    \E i \in 1..Len(a) : a[i] < b[i] /\ \A j \in 1..(i - 1) : a[j] = b[j]

\* A stable sort (np.lexsort behind a multi-column sort_values) of the rows
\* s by their keys: row i goes after every row of a smaller key and after
\* every earlier row of an equal key.
StableSort(s, keys) ==
    LET pos(i) == 1 + Cardinality({j \in 1..Len(s) :
                        LexLess(keys[j], keys[i]) \/ (keys[j] = keys[i] /\ j < i)})
    IN [k \in 1..Len(s) |-> s[CHOOSE i \in 1..Len(s) : pos(i) = k]]

\* The orders of the row numbers idx by their keys, ties in any order: a
\* row of least key comes first, then an order of the rest.
RECURSIVE OrdersOf(_, _)
OrdersOf(idx, keys) ==
    IF idx = {} THEN {<<>>}
    ELSE UNION {{<<i>> \o rest : rest \in OrdersOf(idx \ {i}, keys)} :
                  i \in {j \in idx : \A k \in idx : ~LexLess(keys[k], keys[j])}}

\* The orders a non-stable sort (kind='quicksort', the default of a
\* single-column sort_values) may give: sorted by the key, ties in any order.
SortedOrders(s, keys) ==
    {[k \in 1..Len(s) |-> s[p[k]]] : p \in OrdersOf(1..Len(s), keys)}

-----------------------------------------------------------------------------
(* Game clocks: "MM:SS" strings, or a string that does not parse *)

Clock(m, s) == [ok |-> TRUE, minutes |-> m, seconds |-> s]
BadClock == [ok |-> FALSE, minutes |-> 0, seconds |-> 0]

\* lineup_states._game_clock_to_seconds / possessions._game_clock_to_seconds
_game_clock_to_seconds(game_clock) ==
    IF game_clock.ok THEN game_clock.minutes * 60 + game_clock.seconds ELSE 0

-----------------------------------------------------------------------------
(* Input domains of the lineup builder *)

TeamAbbrs == {"HOU", "DAL"}
TeamId == [HOU |-> 1, DAL |-> 2]
\* string order of the team abbreviations ('DAL' < 'HOU')
TeamRank == [DAL |-> 1, HOU |-> 2]
Roster == [HOU |-> <<101, 102, 103, 104, 105, 106>>,
           DAL |-> <<201, 202, 203, 204, 205, 206>>]
\* participants of the substitution rows the feed supplies
SubPlayers == [HOU |-> {105, 106}, DAL |-> {205, 206}]
Periods == {1, 5}
SubClocks == {Clock(12, 0), Clock(4, 0), BadClock}

\* box score: the rows of HOU then of DAL; the first k rows of a team carry
\* a startPos
BoxRows(team, k) ==
    [i \in 1..Len(Roster[team]) |->
        [nbaId |-> Roster[team][i], team |-> team, nbaTeamId |-> TeamId[team],
         startPos |-> IF i <= k THEN "G" ELSE ""]]

BoxScores == {BoxRows("HOU", kh) \o BoxRows("DAL", kd) :
                kh \in 0..Len(Roster["HOU"]), kd \in 0..Len(Roster["DAL"])}

SubstitutionRows ==
    UNION {{[period |-> p, game_clock |-> c, team |-> t, player_in |-> i, player_out |-> o] :
              p \in Periods, c \in SubClocks, i \in SubPlayers[t], o \in SubPlayers[t]} :
           t \in TeamAbbrs}

NoSub == [outcome |-> "none"]

-----------------------------------------------------------------------------
(* lineups/transformers/lineup_states.py *)

\* rows of the box score that carry a startPos
Starters(box) == SelectSeq(box, LAMBDA r : r.startPos # "")

\* starters['team'].unique(): the teams in order of first appearance
RECURSIVE UniqueTeams(_)
UniqueTeams(rows) ==
    IF rows = <<>> THEN <<>>
    ELSE LET rest == UniqueTeams(SubSeq(rows, 1, Len(rows) - 1))
             t == rows[Len(rows)].team
         IN IF t \in Range(rest) THEN rest ELSE Append(rest, t)

\* team_starters['nbaId'].tolist()
TeamStarterIds(box, team) ==
    LET ts == SelectSeq(Starters(box), LAMBDA r : r.team = team)
    IN [i \in 1..Len(ts) |-> ts[i].nbaId]

\* the check at the heart of _extract_starting_lineups
StarterCountOk(player_ids) == Len(player_ids) = 5

\* _extract_starting_lineups raises ValueError at the first team of the loop
\* whose starter list is not five long
StartingLineupsRaise(box) ==
    \E t \in Range(UniqueTeams(Starters(box))) : ~StarterCountOk(TeamStarterIds(box, t))

_extract_starting_lineups(box) ==
    [t \in Range(UniqueTeams(Starters(box))) |-> Range(TeamStarterIds(box, t))]

\* _lineup_to_dict: player_1 .. player_5 are the sorted ids
_lineup_to_dict(lineup_set) == SortedSeq(lineup_set)

\* _generate_lineup_id: team label joined with the sorted player ids
_generate_lineup_id(row) == <<row.team, SortedSeq(Range(row.players))>>

\* a validation that forgets the test of the incoming player
SubstitutionIsValid_OutOnly(lineup, sub) == sub.player_out \in lineup

\* the two validation tests of a substitution row (lines 135-139)
SubstitutionIsValid(lineup, sub) ==
    sub.player_out \in lineup /\ sub.player_in \notin lineup

\* a substitution that forgets to take the outgoing player off
MakeSubstitution_NoRemove(lineup, sub) == lineup \cup {sub.player_in}

\* lines 142-143
MakeSubstitution(lineup, sub) == (lineup \ {sub.player_out}) \cup {sub.player_in}

TimelineRow(period, game_clock, seconds, team, lineup) ==
    [period |-> period, game_clock |-> game_clock, game_clock_seconds |-> seconds,
     team |-> team, team_id |-> TeamId[team], players |-> _lineup_to_dict(lineup)]

\* the sort key of line 43: team, period, game_clock_seconds, ascending
StateSortKey(row) == <<TeamRank[row.team], row.period, row.game_clock_seconds>>

\* lines 38-43: add lineup_id, sort by team, period, game_clock_seconds
SortLineupStates(timeline) ==
    StableSort([i \in 1..Len(timeline) |->
                   [period |-> timeline[i].period,
                    game_clock |-> timeline[i].game_clock,
                    game_clock_seconds |-> timeline[i].game_clock_seconds,
                    team |-> timeline[i].team,
                    team_id |-> timeline[i].team_id,
                    players |-> timeline[i].players,
                    lineup_id |-> _generate_lineup_id(timeline[i])]],
               [i \in 1..Len(timeline) |-> StateSortKey(timeline[i])])

\* line 121-122: a period opens at 12:00, an overtime period at 05:00
PeriodStartClock(period) == IF period <= 4 THEN Clock(12, 0) ELSE Clock(5, 0)
PeriodStartSeconds(period) == IF period <= 4 THEN 720 ELSE 300

\* lines 118-126: one row per team, in the order of `teams`
PeriodStartRows(period, tms, lineups) ==
    [i \in 1..Len(tms) |->
        TimelineRow(period, PeriodStartClock(period), PeriodStartSeconds(period),
                    tms[i], lineups[tms[i]])]

MaxSubSeconds == Max({_game_clock_to_seconds(c) : c \in SubClocks})

ReadBoxScore ==
    /\ pc = "start"
    /\ \E box \in BoxScores : box_score_df' = box
    /\ pc' = "starting_lineups"
    /\ UNCHANGED <<err, teams, current_lineups, lineup_timeline, row_origin,
                   cur_period, last_clock, sub_count, last_sub, lineup_states,
                   match_idx, matched, possVars, courtVars, rimVars, ratingVars, rerunVars, filterVars>>

\* _extract_starting_lineups, and lines 105-114 of _build_lineup_timeline
ExtractStartingLineups ==
    /\ pc = "starting_lineups"
    /\ IF StartingLineupsRaise(box_score_df)
       THEN /\ pc' = "failed"
            /\ err' = "ValueError"
            /\ UNCHANGED <<teams, current_lineups>>
       ELSE /\ pc' = "build_timeline"
            /\ teams' = UniqueTeams(Starters(box_score_df))
            /\ current_lineups' = _extract_starting_lineups(box_score_df)
            /\ UNCHANGED err
    /\ UNCHANGED <<box_score_df, lineup_timeline, row_origin, cur_period, last_clock,
                   sub_count, last_sub, lineup_states, match_idx, matched, possVars, courtVars, rimVars, ratingVars, rerunVars, filterVars>>

\* lines 116-126: the next period of the play-by-play opens
StartPeriod ==
    /\ pc = "build_timeline"
    /\ \E period \in Periods :
         /\ period > cur_period
         /\ cur_period' = period
         /\ lineup_timeline' =
               lineup_timeline \o PeriodStartRows(period, teams, current_lineups)
         /\ row_origin' = row_origin \o [i \in 1..Len(teams) |-> [kind |-> "period_start"]]
    /\ last_clock' = MaxSubSeconds
    /\ UNCHANGED <<pc, err, box_score_df, teams, current_lineups, sub_count, last_sub,
                   lineup_states, match_idx, matched, possVars, courtVars, rimVars, ratingVars, rerunVars, filterVars>>

\* lines 131-153: one substitution row of the current period, in the order
\* _parse_substitutions sorts them (period ascending, clock descending)
Substitution ==
    /\ pc = "build_timeline"
    /\ sub_count < MaxSubs
    /\ \E sub \in SubstitutionRows :
         LET seconds == _game_clock_to_seconds(sub.game_clock) IN
         /\ sub.period = cur_period
         /\ seconds <= last_clock
         /\ last_clock' = seconds
         /\ IF sub.team \notin DOMAIN current_lineups
            THEN \* current_lineups[team] of a team with no starting lineup
                 /\ pc' = "failed"
                 /\ err' = "KeyError"
                 /\ last_sub' = [outcome |-> "raised", sub |-> sub]
                 /\ UNCHANGED <<current_lineups, lineup_timeline, row_origin>>
            ELSE IF ~SubstitutionIsValid(current_lineups[sub.team], sub)
            THEN /\ last_sub' = [outcome |-> "skipped", sub |-> sub]
                 /\ UNCHANGED <<pc, err, current_lineups, lineup_timeline, row_origin>>
            ELSE LET lineup == MakeSubstitution(current_lineups[sub.team], sub) IN
                 /\ current_lineups' = [current_lineups EXCEPT ![sub.team] = lineup]
                 /\ lineup_timeline' = Append(lineup_timeline,
                        TimelineRow(sub.period, sub.game_clock, seconds, sub.team, lineup))
                 /\ row_origin' = Append(row_origin,
                        [kind |-> "substitution", sub |-> sub,
                         before |-> current_lineups[sub.team]])
                 /\ last_sub' = [outcome |-> "applied", sub |-> sub]
                 /\ UNCHANGED <<pc, err>>
    /\ sub_count' = sub_count + 1
    /\ UNCHANGED <<box_score_df, teams, cur_period, lineup_states, match_idx, matched,
                   possVars, courtVars, rimVars, ratingVars, rerunVars, filterVars>>

\* lines 155 and 38-43: the frame is built, given lineup_id and sorted; a
\* frame of no rows has no 'team' column to sort by.  The loop's cursors go
\* out of scope when _build_lineup_timeline returns.
FinishTimeline ==
    /\ pc = "build_timeline"
    /\ IF lineup_timeline = <<>>
       THEN /\ pc' = "failed"
            /\ err' = "KeyError"
            /\ UNCHANGED lineup_states
       ELSE /\ pc' = "match"
            /\ lineup_states' = SortLineupStates(lineup_timeline)
            /\ UNCHANGED err
    /\ last_clock' = 0
    /\ sub_count' = 0
    /\ last_sub' = NoSub
    /\ UNCHANGED <<box_score_df, teams, current_lineups, lineup_timeline, row_origin,
                   cur_period, match_idx, matched, possVars, courtVars, rimVars, ratingVars, rerunVars, filterVars>>

-----------------------------------------------------------------------------
(* lineups/transformers/lineup_possessions.py *)

\* possession rows handed to the join: probe clocks and the two team ids
ProbeSeconds == {720, 240, 0}
TeamPairs == {<<1, 2>>, <<2, 1>>}

PossessionProbes(id) ==
    {[possession_id |-> id, period |-> p, start_time_seconds |-> t,
      off_team |-> tp[1], def_team |-> tp[2]] :
        p \in Periods, t \in ProbeSeconds, tp \in TeamPairs}

\* line 75: sort_values('game_clock_seconds', ascending=False)
ClockDescendingKey(row) == <<0 - row.game_clock_seconds>>

\* a filter that drops the row whose clock equals the probe
AtOrBefore_Strict(row, time_seconds) == row.game_clock_seconds > time_seconds

\* line 79: the rows at or before the probe on the game clock
AtOrBefore(row, time_seconds) == row.game_clock_seconds >= time_seconds

\* a choice with no fallback to the last known lineup
ActiveLineup_NoFallback(sorted, time_seconds) ==
    LET active_lineups == SelectSeq(sorted, LAMBDA r : AtOrBefore(r, time_seconds))
    IN IF active_lineups = <<>>
       THEN <<>>
       ELSE <<active_lineups[Len(active_lineups)]>>

\* lines 77-86, for one order the sort of line 75 gave
ActiveLineup(sorted, time_seconds) ==
    LET active_lineups == SelectSeq(sorted, LAMBDA r : AtOrBefore(r, time_seconds))
    IN IF active_lineups = <<>>
       THEN <<sorted[Len(sorted)]>>
       ELSE <<active_lineups[Len(active_lineups)]>>

\* a search that forgets to filter on the period
find_lineup_at_time_AnyPeriod(lineups_df, period, time_seconds, team_id) ==
    LET team_lineups == SelectSeq(lineups_df, LAMBDA r : r.team_id = team_id)
    IN IF team_lineups = <<>>
       THEN {<<>>}
       ELSE {ActiveLineup(sorted, time_seconds) :
                sorted \in SortedOrders(team_lineups,
                    [i \in 1..Len(team_lineups) |-> ClockDescendingKey(team_lineups[i])])}

\* find_lineup_at_time: the rows it may return, <<>> standing for None.  The
\* sort of line 75 is a single-column quicksort, which fixes no order among
\* rows of equal game_clock_seconds.
find_lineup_at_time(lineups_df, period, time_seconds, team_id) ==
    LET team_lineups ==
            SelectSeq(lineups_df, LAMBDA r : r.team_id = team_id /\ r.period = period)
    IN IF team_lineups = <<>>
       THEN {<<>>}
       ELSE {ActiveLineup(sorted, time_seconds) :
                sorted \in SortedOrders(team_lineups,
                    [i \in 1..Len(team_lineups) |-> ClockDescendingKey(team_lineups[i])])}

\* Series.get(key, default)
GetOr(row, key, default) == IF key \in DOMAIN row THEN row[key] ELSE default

\* a record that loses the id of its possession
create_possession_record_NoId(possession, off_lineup, def_lineup) ==
    [possession_id |-> 0,
     period |-> possession.period,
     start_time_seconds |-> possession.start_time_seconds,
     points_scored |-> GetOr(possession, "points_scored", 0),
     off_team_id |-> possession.off_team,
     def_team_id |-> possession.def_team,
     off_team |-> off_lineup.team,
     def_team |-> def_lineup.team,
     off_players |-> off_lineup.players,
     off_lineup_id |-> off_lineup.lineup_id,
     def_players |-> def_lineup.players,
     def_lineup_id |-> def_lineup.lineup_id]

\* create_possession_record
create_possession_record(possession, off_lineup, def_lineup) ==
    [possession_id |-> possession.possession_id,
     period |-> possession.period,
     start_time_seconds |-> possession.start_time_seconds,
     points_scored |-> GetOr(possession, "points_scored", 0),
     off_team_id |-> possession.off_team,
     def_team_id |-> possession.def_team,
     off_team |-> off_lineup.team,
     def_team |-> def_lineup.team,
     off_players |-> off_lineup.players,
     off_lineup_id |-> off_lineup.lineup_id,
     def_players |-> def_lineup.players,
     def_lineup_id |-> def_lineup.lineup_id]

\* match_lineups_to_possessions, lines 35-49: one possession row of the loop
MatchPossession ==
    /\ pc = "match"
    /\ match_idx < MaxPossessions
    /\ \E poss \in PossessionProbes(match_idx + 1) :
         \E off_lineup \in find_lineup_at_time(lineup_states, poss.period,
                                poss.start_time_seconds, poss.off_team) :
         \E def_lineup \in find_lineup_at_time(lineup_states, poss.period,
                                poss.start_time_seconds, poss.def_team) :
            IF off_lineup # <<>> /\ def_lineup # <<>>
            THEN matched' = Append(matched,
                     create_possession_record(poss, off_lineup[1], def_lineup[1]))
            ELSE UNCHANGED matched
    /\ match_idx' = match_idx + 1
    /\ UNCHANGED <<pc, err, box_score_df, teams, current_lineups, lineup_timeline,
                   row_origin, cur_period, last_clock, sub_count, last_sub,
                   lineup_states, possVars, courtVars, rimVars, ratingVars, rerunVars, filterVars>>

-----------------------------------------------------------------------------
(* The lineup pipeline: extract_lineup_states, then the attribution join *)

\* no frame built yet, nothing raised
NothingBuilt ==
    /\ err = "none"
    /\ box_score_df = <<>>
    /\ teams = <<>>
    /\ current_lineups = <<>>
    /\ lineup_timeline = <<>>
    /\ row_origin = <<>>
    /\ cur_period = 0
    /\ last_clock = 0
    /\ sub_count = 0
    /\ last_sub = NoSub
    /\ lineup_states = <<>>
    /\ match_idx = 0
    /\ matched = <<>>
    /\ pbp = <<>>
    /\ possessions = <<>>
    /\ player_poss = <<>>
    /\ intervals = <<>>
    /\ rim_defense = <<>>
    /\ lineup_possessions = <<>>
    /\ lineup_ratings = <<>>
    /\ runs = <<>>
    /\ tie_order = "kept"
    /\ min_possessions = 0
    /\ filtered = <<>>

InitLineup ==
    /\ pc = "start"
    /\ NothingBuilt

NextLineup ==
    \/ ReadBoxScore
    \/ ExtractStartingLineups
    \/ StartPeriod
    \/ Substitution
    \/ FinishTimeline
    \/ MatchPossession

SpecLineup == InitLineup /\ [][NextLineup]_vars

-----------------------------------------------------------------------------
(* Input domain of the possession engines: the play-by-play feed *)

\* np.nan / None in an id column (ids of the feed are >= 0)
NaN == -1
PlayPeriods == {1, 2}

\* the game clocks of the plays of a period: two moments of period 1, twelve
\* seconds apart, and one moment of period 2
PlayClocks(period) ==
    IF period = 1 THEN {Clock(0, 12), Clock(0, 0)} ELSE {Clock(0, 12)}

\* the kinds of plays the feed supplies: made shot, missed shot, free throws
\* of two shooters, rebounds of either team, turnover, period end, game end.
\* Team events carry their team in offTeamId and nbaTeamId and the
\* opponent in defTeamId; neutral events carry 0 and no player.
PlayKinds ==
    {[msgType |-> 1, playerId1 |-> 101, offTeamId |-> 1, defTeamId |-> 2, pts |-> 2],
     [msgType |-> 2, playerId1 |-> 101, offTeamId |-> 1, defTeamId |-> 2, pts |-> 0],
     [msgType |-> 3, playerId1 |-> 101, offTeamId |-> 1, defTeamId |-> 2, pts |-> 1],
     [msgType |-> 3, playerId1 |-> 201, offTeamId |-> 2, defTeamId |-> 1, pts |-> 1],
     [msgType |-> 4, playerId1 |-> 101, offTeamId |-> 1, defTeamId |-> 2, pts |-> 0],
     [msgType |-> 4, playerId1 |-> 201, offTeamId |-> 2, defTeamId |-> 1, pts |-> 0],
     [msgType |-> 5, playerId1 |-> 201, offTeamId |-> 2, defTeamId |-> 1, pts |-> 0],
     [msgType |-> 12, playerId1 |-> NaN, offTeamId |-> 0, defTeamId |-> 0, pts |-> 0],
     [msgType |-> 13, playerId1 |-> NaN, offTeamId |-> 0, defTeamId |-> 0, pts |-> 0]}

\* the wall clock of a play: game seconds elapsed, periods laid end to end
WallClock(period, game_clock) ==
    period * 720 - _game_clock_to_seconds(game_clock)

PlayRow(kind, period, game_clock, order) ==
    [period |-> period, gameClock |-> game_clock, pbpOrder |-> order,
     msgType |-> kind.msgType, playerId1 |-> kind.playerId1,
     offTeamId |-> kind.offTeamId, defTeamId |-> kind.defTeamId,
     nbaTeamId |-> IF kind.offTeamId > 0 THEN kind.offTeamId ELSE NaN,
     pts |-> kind.pts, actionType |-> 0, description |-> "",
     wallClockInt |-> WallClock(period, game_clock)]

\* the feed lists plays in game order: periods ascending, clock running down
InGameOrder(rows, period, game_clock) ==
    IF rows = <<>> THEN TRUE
    ELSE LET last == rows[Len(rows)] IN
         \/ last.period < period
         \/ /\ last.period = period
            /\ _game_clock_to_seconds(last.gameClock) >= _game_clock_to_seconds(game_clock)

\* one more row of pbp_df
AddPlay ==
    /\ pc = "plays"
    /\ Len(pbp) < MaxPlays
    /\ \E kind \in PlayKinds, period \in PlayPeriods :
       \E game_clock \in PlayClocks(period) :
         /\ InGameOrder(pbp, period, game_clock)
         /\ pbp' = Append(pbp, PlayRow(kind, period, game_clock, Len(pbp) + 1))
    /\ UNCHANGED <<pc, err, lineupVars, courtVars, rimVars, ratingVars, rerunVars, filterVars, possessions, player_poss>>

-----------------------------------------------------------------------------
(* lineups/transformers/possessions.py *)

\* lines 53-60: game_clock_seconds and time_elapsed of every row
WithClockColumns(pbp_df) ==
    LET secs(i) == _game_clock_to_seconds(pbp_df[i].gameClock)
        max_period_time(period) ==
            Max({secs(j) : j \in {k \in 1..Len(pbp_df) : pbp_df[k].period = period}})
    IN [i \in 1..Len(pbp_df) |->
          [period |-> pbp_df[i].period, gameClock |-> pbp_df[i].gameClock,
           pbpOrder |-> pbp_df[i].pbpOrder, msgType |-> pbp_df[i].msgType,
           playerId1 |-> pbp_df[i].playerId1, offTeamId |-> pbp_df[i].offTeamId,
           nbaTeamId |-> pbp_df[i].nbaTeamId, pts |-> pbp_df[i].pts,
           game_clock_seconds |-> secs(i),
           time_elapsed |-> max_period_time(pbp_df[i].period) - secs(i),
           offTeamId_clean |-> IF pbp_df[i].offTeamId > 0 THEN pbp_df[i].offTeamId ELSE NaN]]

\* line 63: sort_values(['period', 'time_elapsed', 'pbpOrder'])
ChronologicalKey(row) == <<row.period, row.time_elapsed, row.pbpOrder>>

\* _prepare_pbp_data (offTeamId_clean is the column of line 84)
_prepare_pbp_data(pbp_df) ==
    LET rows == WithClockColumns(pbp_df)
    IN StableSort(rows, [i \in 1..Len(rows) |-> ChronologicalKey(rows[i])])

\* _clean_team_ids, lines 76-81: the valid team ids
CleanValidTeams(pbp_df) ==
    LET from_off == {pbp_df[i].offTeamId : i \in {k \in 1..Len(pbp_df) : pbp_df[k].offTeamId > 0}}
        from_nba == {pbp_df[i].nbaTeamId : i \in {k \in 1..Len(pbp_df) : pbp_df[k].nbaTeamId # NaN}}
    IN SortedSeq(IF Cardinality(from_off) # 2 THEN from_nba ELSE from_off)

\* _clean_team_ids, lines 85-87: the lambda reads valid_teams[0] for every
\* row, and valid_teams[1] for a row of the first valid team
CleanTeamIdsRaises(pbp_df) ==
    LET valid_teams == CleanValidTeams(pbp_df) IN
    /\ pbp_df # <<>>
    /\ \/ Len(valid_teams) = 0
       \/ /\ Len(valid_teams) = 1
          /\ \E i \in 1..Len(pbp_df) : pbp_df[i].offTeamId = valid_teams[1]

\* NaN never compares equal, not even to NaN
SamePlayer(a, b) == a # NaN /\ b # NaN /\ a = b

Abs(x) == IF x < 0 THEN 0 - x ELSE x

\* lines 141 and 156: iloc[idx+1:idx+3] if idx < len(pbp_df)-2 else no rows
\* (idx counts from 0 there, i from 1 here)
NextPlays(pbp_df, i) ==
    IF i - 1 < Len(pbp_df) - 2 THEN {j \in {i + 1, i + 2} : j <= Len(pbp_df)} ELSE {}

\* _is_and_one_freethrow
_is_and_one_freethrow(play, pbp_df, i) ==
    \E j \in NextPlays(pbp_df, i) :
        /\ pbp_df[j].msgType = 3
        /\ SamePlayer(pbp_df[j].playerId1, play.playerId1)
        /\ Abs(pbp_df[j].time_elapsed - play.time_elapsed) < 5

\* _is_last_free_throw
_is_last_free_throw(play, pbp_df, i) ==
    ~ \E j \in NextPlays(pbp_df, i) :
        /\ pbp_df[j].msgType = 3
        /\ SamePlayer(pbp_df[j].playerId1, play.playerId1)
        /\ Abs(pbp_df[j].time_elapsed - play.time_elapsed) < 10

\* _is_defensive_rebound: the nearest missed shot among the five plays
\* before; line 178 returns True, and so does the default of line 182
_is_defensive_rebound(play, pbp_df, i) ==
    LET prev_plays == {j \in 1..(i - 1) : j >= i - 5}
        misses == {j \in prev_plays : pbp_df[j].msgType = 2}
    IN IF /\ misses # {}
          /\ play.offTeamId_clean # NaN
          /\ pbp_df[Max(misses)].offTeamId_clean # NaN
          /\ play.offTeamId_clean # pbp_df[Max(misses)].offTeamId_clean
       THEN TRUE
       ELSE TRUE

\* _create_possession_ending
_create_possession_ending(play, end_type, i) ==
    [period |-> play.period, end_time_seconds |-> play.game_clock_seconds,
     time_elapsed |-> play.time_elapsed, end_type |-> end_type,
     ending_team |-> play.offTeamId_clean, pbp_idx |-> i]

\* lines 96-103
possession_end_events(msg_type) ==
    CASE msg_type = 1 -> "made_shot"
      [] msg_type = 3 -> "free_throw"
      [] msg_type = 5 -> "turnover"
      [] msg_type = 4 -> "rebound"
      [] msg_type = 12 -> "period_end"
      [] msg_type = 13 -> "period_end"
      [] OTHER -> "none"

\* lines 108-133: the ending play i gives, <<>> when it gives none
EndingOfPlay(pbp_df, i) ==
    LET play == pbp_df[i]
        end_type == possession_end_events(play.msgType)
    IN CASE play.msgType = 1 ->
              IF ~_is_and_one_freethrow(play, pbp_df, i)
              THEN <<_create_possession_ending(play, end_type, i)>> ELSE <<>>
         [] play.msgType = 3 ->
              IF _is_last_free_throw(play, pbp_df, i)
              THEN <<_create_possession_ending(play, end_type, i)>> ELSE <<>>
         [] play.msgType = 4 ->
              IF _is_defensive_rebound(play, pbp_df, i)
              THEN <<_create_possession_ending(play, "defensive_rebound", i)>> ELSE <<>>
         [] play.msgType = 5 -> <<_create_possession_ending(play, end_type, i)>>
         [] play.msgType \in {12, 13} -> <<_create_possession_ending(play, end_type, i)>>
         [] OTHER -> <<>>

\* _identify_possession_endings: the loop of line 107 over the first n plays
RECURSIVE EndingsUpTo(_, _)
EndingsUpTo(pbp_df, n) ==
    IF n = 0 THEN <<>> ELSE EndingsUpTo(pbp_df, n - 1) \o EndingOfPlay(pbp_df, n)

_identify_possession_endings(pbp_df) == EndingsUpTo(pbp_df, Len(pbp_df))

\* the periods of a frame, sorted
PeriodsOf(rows) == SortedSeq({rows[i].period : i \in 1..Len(rows)})

\* line 219: sorted unique offTeamId_clean that are not NaN
TimelineValidTeams(pbp_df) ==
    SortedSeq({pbp_df[i].offTeamId_clean : i \in 1..Len(pbp_df)} \ {NaN})

\* lines 214-215: the rows of the period that carry a team
TeamEventsOf(pbp_df, period) ==
    SelectSeq(pbp_df, LAMBDA r : r.period = period /\ r.offTeamId_clean # NaN)

\* lines 215 and 220: iloc[0] of no rows, or valid_teams[1] of one team
BuildTimelineRaises(pbp_df, endings_df) ==
    /\ endings_df # <<>>
    /\ \/ Len(TimelineValidTeams(pbp_df)) < 2
       \/ \E period \in Range(PeriodsOf(endings_df)) : TeamEventsOf(pbp_df, period) = <<>>

\* line 207: sort_values('time_elapsed')
EndingSortKey_Reversed(ending) == <<0 - ending.time_elapsed>>

EndingSortKey(ending) == <<ending.time_elapsed>>

\* a team change that forgets turnovers
EndsWithTeamChange_NoTurnover(end_type) == end_type \in {"defensive_rebound"}

\* a team change that also follows the end of a period
EndsWithTeamChange_AlsoPeriodEnd(end_type) ==
    end_type \in {"defensive_rebound", "turnover", "period_end"}

\* line 240: the endings after which the teams switch
EndsWithTeamChange(end_type) == end_type \in {"defensive_rebound", "turnover"}

\* lines 222-242: the possessions of endings k.. of one period
RECURSIVE PossessionsFrom(_, _, _, _, _, _, _)
PossessionsFrom(period, endings, k, possession_start, off_team, other_team, id) ==
    IF k > Len(endings) THEN <<>>
    ELSE LET ending == endings[k]
             switch == EndsWithTeamChange(ending.end_type)
         IN <<[possession_id |-> id,
               period |-> period,
               start_time_seconds |-> possession_start,
               end_time_seconds |-> ending.end_time_seconds,
               off_team |-> off_team,
               def_team |-> other_team,
               end_type |-> ending.end_type,
               pbp_end_idx |-> ending.pbp_idx]>>
            \o PossessionsFrom(period, endings, k + 1, ending.end_time_seconds,
                               IF switch THEN other_team ELSE off_team,
                               IF switch THEN off_team ELSE other_team,
                               id + 1)

\* a period start read from the last clock of the period
PeriodStartTime_Min(pbp_df, period) ==
    Min({pbp_df[i].game_clock_seconds :
            i \in {k \in 1..Len(pbp_df) : pbp_df[k].period = period}})

\* line 210: the greatest game clock among the plays of the period
PeriodStartTime(pbp_df, period) ==
    Max({pbp_df[i].game_clock_seconds :
            i \in {k \in 1..Len(pbp_df) : pbp_df[k].period = period}})

\* a defending team that is always the first valid team
OtherTeam_First(current_off_team, valid_teams) == valid_teams[1]

\* line 220: the valid team that is not on offense
OtherTeam(current_off_team, valid_teams) ==
    IF current_off_team = valid_teams[1] THEN valid_teams[2] ELSE valid_teams[1]

\* lines 207-242 for one period, for one order the sort of line 207 gave
PeriodPossessions(pbp_df, period, period_endings, first_id) ==
    LET period_start_time == PeriodStartTime(pbp_df, period)
        current_off_team == TeamEventsOf(pbp_df, period)[1].offTeamId_clean
        valid_teams == TimelineValidTeams(pbp_df)
        other_team == OtherTeam(current_off_team, valid_teams)
    IN PossessionsFrom(period, period_endings, 1, period_start_time,
                       current_off_team, other_team, first_id)

\* the loop of line 206 over periods[n..]: the timelines it may build.  The
\* sort of line 207 is a single-column quicksort, which fixes no order among
\* endings of equal time_elapsed.
RECURSIVE TimelinesFrom(_, _, _, _, _)
TimelinesFrom(pbp_df, endings_df, periods, n, first_id) ==
    IF n > Len(periods) THEN {<<>>}
    ELSE LET in_period == SelectSeq(endings_df, LAMBDA e : e.period = periods[n])
             orders == SortedOrders(in_period,
                          [i \in 1..Len(in_period) |-> EndingSortKey(in_period[i])])
             rest == TimelinesFrom(pbp_df, endings_df, periods, n + 1,
                                   first_id + Len(in_period))
         IN {PeriodPossessions(pbp_df, periods[n], o, first_id) \o r :
                o \in orders, r \in rest}

\* _build_possession_timeline, when it does not raise
_build_possession_timeline(pbp_df, endings_df) ==
    IF endings_df = <<>> THEN {<<>>}
    ELSE TimelinesFrom(pbp_df, endings_df, PeriodsOf(endings_df), 1, 1)

RECURSIVE SumPts(_, _)
SumPts(pbp_df, idxs) ==
    IF idxs = {} THEN 0
    ELSE LET i == CHOOSE j \in idxs : TRUE
         IN pbp_df[i].pts + SumPts(pbp_df, idxs \ {i})

\* scoring events of the open range of the possession only
ScoringEvents_OpenRange(pbp_df, poss) ==
    {i \in 1..Len(pbp_df) :
        /\ pbp_df[i].period = poss.period
        /\ pbp_df[i].game_clock_seconds < poss.start_time_seconds
        /\ pbp_df[i].game_clock_seconds > poss.end_time_seconds
        /\ pbp_df[i].offTeamId_clean = poss.off_team
        /\ pbp_df[i].pts > 0}

\* lines 264-270: the scoring events counted for a possession
ScoringEvents(pbp_df, poss) ==
    {i \in 1..Len(pbp_df) :
        /\ pbp_df[i].period = poss.period
        /\ pbp_df[i].game_clock_seconds <= poss.start_time_seconds
        /\ pbp_df[i].game_clock_seconds >= poss.end_time_seconds
        /\ pbp_df[i].offTeamId_clean = poss.off_team
        /\ pbp_df[i].pts > 0}

\* _calculate_possession_metrics
_calculate_possession_metrics(possessions_df, pbp_df) ==
    [k \in 1..Len(possessions_df) |->
        [possession_id |-> possessions_df[k].possession_id,
         period |-> possessions_df[k].period,
         start_time_seconds |-> possessions_df[k].start_time_seconds,
         end_time_seconds |-> possessions_df[k].end_time_seconds,
         off_team |-> possessions_df[k].off_team,
         def_team |-> possessions_df[k].def_team,
         end_type |-> possessions_df[k].end_type,
         pbp_end_idx |-> possessions_df[k].pbp_end_idx,
         duration_seconds |-> Abs(possessions_df[k].start_time_seconds
                                  - possessions_df[k].end_time_seconds),
         points_scored |-> SumPts(pbp_df, ScoringEvents(pbp_df, possessions_df[k]))]]

\* extract_possessions on a feed of at least one row
ExtractPossessions ==
    /\ pc = "identified"
    /\ pbp # <<>>
    /\ LET pbp_clean == _prepare_pbp_data(pbp)
           possession_endings == _identify_possession_endings(pbp_clean)
       IN IF \/ CleanTeamIdsRaises(pbp)
             \/ BuildTimelineRaises(pbp_clean, possession_endings)
          THEN /\ pc' = "failed"
               /\ err' = "IndexError"
               /\ UNCHANGED possessions
          ELSE /\ pc' = "extracted"
               /\ \E timeline \in _build_possession_timeline(pbp_clean, possession_endings) :
                     possessions' = _calculate_possession_metrics(timeline, pbp_clean)
               /\ UNCHANGED err
    /\ UNCHANGED <<lineupVars, courtVars, rimVars, ratingVars, rerunVars, filterVars, pbp, player_poss>>

-----------------------------------------------------------------------------
(* players/transformers/possessions.py *)

\* line 57: sort_values(['period', 'wallClockInt'])
WallClockKey(row) == <<row.period, row.wallClockInt>>

\* line 130: 'FLAGRANT' in str(description).upper()
MentionsFlagrant(description) == description \in {"FLAGRANT", "Flagrant foul"}

\* lines 89-132: the reason event i ends the possession, "" when it does not
EndReason(pbp_sorted, i) ==
    LET event == pbp_sorted[i] IN
    CASE event.msgType = 1 -> "made_shot"
      [] event.msgType = 2 ->
           IF i + 1 <= Len(pbp_sorted) /\ pbp_sorted[i + 1].msgType = 4
           THEN "defensive_rebound" ELSE ""
      [] event.msgType = 5 -> "turnover"
      [] event.msgType = 13 -> "end_period"
      [] event.msgType = 6 ->
           IF MentionsFlagrant(event.description) THEN "foul" ELSE ""
      [] OTHER -> ""

\* lines 67-75: the possession opened at an event
OpenPossession(event, id) ==
    [possession_id |-> id,
     start_period |-> event.period,
     start_wallClock |-> event.wallClockInt,
     offensive_team |-> event.offTeamId,
     defensive_team |-> event.defTeamId,
     event_count |-> 0]

\* lines 135-142 and 145-151: the possession closed at an event
ClosePossession(current, event, end_reason, event_count) ==
    [possession_id |-> current.possession_id,
     start_period |-> current.start_period,
     start_wallClock |-> current.start_wallClock,
     offensive_team |-> current.offensive_team,
     defensive_team |-> current.defensive_team,
     end_period |-> event.period,
     end_wallClock |-> event.wallClockInt,
     end_reason |-> end_reason,
     event_count |-> event_count]

\* the loop of line 64 from event i on; current is <<>> for None
RECURSIVE IdentifyFrom(_, _, _, _)
IdentifyFrom(pbp_sorted, i, done, current) ==
    IF i > Len(pbp_sorted)
    THEN IF current = <<>> THEN done
         ELSE Append(done, ClosePossession(current[1], pbp_sorted[Len(pbp_sorted)],
                                           "game_end", current[1].event_count))
    ELSE LET event == pbp_sorted[i]
             open == IF current = <<>>
                     THEN OpenPossession(event, Len(done) + 1) ELSE current[1]
             count == open.event_count + 1
             end_reason == EndReason(pbp_sorted, i)
         IN IF end_reason # ""
            THEN IdentifyFrom(pbp_sorted, i + 1,
                     Append(done, ClosePossession(open, event, end_reason, count)), <<>>)
            ELSE IdentifyFrom(pbp_sorted, i + 1, done,
                     <<[open EXCEPT !.event_count = count]>>)

\* _identify_possessions
_identify_possessions(pbp_df) ==
    IdentifyFrom(StableSort(pbp_df, [i \in 1..Len(pbp_df) |-> WallClockKey(pbp_df[i])]),
                 1, <<>>, <<>>)

IdentifyPossessions ==
    /\ pc = "plays"
    /\ player_poss' = _identify_possessions(pbp)
    /\ pc' = "identified"
    /\ UNCHANGED <<err, lineupVars, courtVars, rimVars, ratingVars, rerunVars, filterVars, pbp, possessions>>

-----------------------------------------------------------------------------
(* The possession engines on one play-by-play feed: the players' engine,  *)
(* then the lineups' engine                                                *)

InitPoss ==
    /\ pc = "plays"
    /\ NothingBuilt

NextPoss ==
    \/ AddPlay
    \/ ExtractPossessions
    \/ IdentifyPossessions

SpecPoss == InitPoss /\ [][NextPoss]_vars

-----------------------------------------------------------------------------
(* Input domain of the court-time tracker: box score and play-by-play feed *)

\* the box score of one team of six players, the first k of them starters
\* (gs = 1) and the others on the bench
CourtBoxScore(k) ==
    [i \in 1..6 |-> [nbaId |-> 100 + i, nbaTeamId |-> 1,
                     gs |-> IF i <= k THEN 1 ELSE 0]]

\* the numbers of starters a box score may flag
CourtStarterCounts == {4, 5}

CourtBoxScores == {CourtBoxScore(k) : k \in CourtStarterCounts}

\* a player id that no row of the box score carries
UnknownPlayer == 999

\* players of the activity rows of the feed: a starter and the bench player
CourtActivePlayers == {101, 106}

\* the kinds of rows the feed supplies: substitutions (msgType 8, playerId1
\* leaving and playerId2 entering, as court_time.py reads them), rebounds
\* (msgType 4) and the end-of-period marker (msgType 13)
CourtEventKinds ==
    {[msgType |-> 8, playerId1 |-> pair[1], playerId2 |-> pair[2], playerId3 |-> NaN] :
        pair \in {<<101, 102>>, <<101, 106>>, <<106, 102>>,
                  <<UnknownPlayer, 106>>, <<101, UnknownPlayer>>}}
    \cup {[msgType |-> 4, playerId1 |-> p, playerId2 |-> NaN, playerId3 |-> NaN] :
            p \in CourtActivePlayers}
    \cup {[msgType |-> 13, playerId1 |-> NaN, playerId2 |-> NaN, playerId3 |-> NaN]}

\* the wall clocks of the rows of a period
CourtClocks(period) == IF period = 1 THEN {100, 110} ELSE {200}

CourtRow(kind, period, wall_clock) ==
    [gameId |-> "G1", period |-> period, wallClockInt |-> wall_clock,
     msgType |-> kind.msgType, playerId1 |-> kind.playerId1,
     playerId2 |-> kind.playerId2, playerId3 |-> kind.playerId3]

\* the feed starts in period 1 and lists its rows in game order
InCourtOrder(rows, period, wall_clock) ==
    IF rows = <<>> THEN period = 1
    ELSE LET last == rows[Len(rows)] IN
         \/ last.period < period
         \/ last.period = period /\ last.wallClockInt <= wall_clock

-----------------------------------------------------------------------------
(* players/transformers/court_time.py *)

\* _get_starting_lineups: team id -> ids of the players with gs = 1
_get_starting_lineups(box) ==
    LET starters_df == SelectSeq(box, LAMBDA r : r.gs = 1)
    IN [team_id \in {starters_df[i].nbaTeamId : i \in 1..Len(starters_df)} |->
          {starters_df[i].nbaId :
              i \in {j \in 1..Len(starters_df) : starters_df[j].nbaTeamId = team_id}}]

\* _get_team_mapping: player id -> team id
_get_team_mapping(box) ==
    [player_id \in {box[i].nbaId : i \in 1..Len(box)} |->
        (CHOOSE r \in Range(box) : r.nbaId = player_id).nbaTeamId]

\* sort_values(['period', 'wallClockInt']) of lines 61, 87 and 194
CourtTimeKey(row) == <<row.period, row.wallClockInt>>

\* _get_substitution_events
_get_substitution_events(pbp_df) ==
    LET subs == SelectSeq(pbp_df, LAMBDA r : r.msgType = 8)
    IN StableSort(subs, [i \in 1..Len(subs) |-> CourtTimeKey(subs[i])])

\* lines 76-85: the activity rows of one play, one per player column filled
ActivitiesOfRow(row) ==
    LET one(player) ==
            IF player # NaN
            THEN <<[period |-> row.period, wallClockInt |-> row.wallClockInt,
                    playerId |-> player, msgType |-> row.msgType]>>
            ELSE <<>>
    IN one(row.playerId1) \o one(row.playerId2) \o one(row.playerId3)

RECURSIVE ActivityList(_, _)
ActivityList(activities, n) ==
    IF n = 0 THEN <<>>
    ELSE ActivityList(activities, n - 1) \o ActivitiesOfRow(activities[n])

\* lines 69-71: the plays that show a player on court
ActivityRows(pbp_df) == SelectSeq(pbp_df, LAMBDA r : r.msgType \in 1..7)

\* line 87: sort_values on a frame built from an empty list has no column
\* 'period' to sort by
PlayerActivitiesRaise(pbp_df) ==
    ActivityList(ActivityRows(pbp_df), Len(ActivityRows(pbp_df))) = <<>>

\* _get_player_activities
_get_player_activities(pbp_df) ==
    LET activity_list == ActivityList(ActivityRows(pbp_df), Len(ActivityRows(pbp_df)))
    IN StableSort(activity_list,
                  [i \in 1..Len(activity_list) |-> CourtTimeKey(activity_list[i])])

\* player_status.get(player_id, 'UNKNOWN')
StatusOf(player_status, player_id) ==
    IF player_id \in DOMAIN player_status THEN player_status[player_id] ELSE "UNKNOWN"

\* player_status[player_id] = status
WithStatus(player_status, player_id, status) ==
    [q \in DOMAIN player_status \cup {player_id} |->
        IF q = player_id THEN status ELSE player_status[q]]

\* lines 171-194: substitutions, then activities, sorted by period and clock
AllEvents(activities, substitutions) ==
    LET all_events ==
            [i \in 1..Len(substitutions) |->
                [period |-> substitutions[i].period,
                 wallClockInt |-> substitutions[i].wallClockInt,
                 event_type |-> "substitution",
                 player_out |-> substitutions[i].playerId1,
                 player_in |-> substitutions[i].playerId2,
                 player_id |-> NaN]]
            \o [i \in 1..Len(activities) |->
                [period |-> activities[i].period,
                 wallClockInt |-> activities[i].wallClockInt,
                 event_type |-> "activity",
                 player_out |-> NaN,
                 player_in |-> NaN,
                 player_id |-> activities[i].playerId]]
    IN StableSort(all_events, [i \in 1..Len(all_events) |-> CourtTimeKey(all_events[i])])

\* line 220: an entry is inferred for a player whose status is OUT
InfersEntry(current_status) == current_status = "OUT"

\* lines 202-233: the loop over all_events from event i on
RECURSIVE InferFrom(_, _, _, _)
InferFrom(all_events, i, player_status, team_mapping) ==
    IF i > Len(all_events) THEN <<>>
    ELSE LET event == all_events[i] IN
         IF event.event_type = "substitution"
         THEN InferFrom(all_events, i + 1,
                        WithStatus(WithStatus(player_status, event.player_out, "OUT"),
                                   event.player_in, "IN"),
                        team_mapping)
         ELSE IF /\ InfersEntry(StatusOf(player_status, event.player_id))
                 /\ event.player_id \in DOMAIN team_mapping
              THEN <<[period |-> event.period, wallClockInt |-> event.wallClockInt,
                      playerId |-> event.player_id,
                      teamId |-> team_mapping[event.player_id],
                      action |-> "IN", source |-> "inferred_from_activity"]>>
                   \o InferFrom(all_events, i + 1,
                                WithStatus(player_status, event.player_id, "IN"),
                                team_mapping)
              ELSE InferFrom(all_events, i + 1, player_status, team_mapping)

\* _infer_reentries_from_activity
_infer_reentries_from_activity(activities, substitutions, team_mapping) ==
    InferFrom(AllEvents(activities, substitutions), 1, <<>>, team_mapping)

\* lines 97-100: period and clock marks of the game
CourtMaxPeriod(pbp_df) == Max({pbp_df[i].period : i \in 1..Len(pbp_df)})

GameStartWallClock(pbp_df) ==
    Min({pbp_df[i].wallClockInt : i \in {j \in 1..Len(pbp_df) : pbp_df[j].period = 1}})

\* a game end read off the first row of the last period
GameEndWallClock_Min(pbp_df) ==
    Min({pbp_df[i].wallClockInt :
            i \in {j \in 1..Len(pbp_df) : pbp_df[j].period = CourtMaxPeriod(pbp_df)}})

GameEndWallClock(pbp_df) ==
    Max({pbp_df[i].wallClockInt :
            i \in {j \in 1..Len(pbp_df) : pbp_df[j].period = CourtMaxPeriod(pbp_df)}})

\* lines 108-117: a START row for every starter (in ascending id order; the
\* order Python iterates the set in only shows in the order of tied rows)
RECURSIVE StarterChanges(_, _, _)
StarterChanges(starters, team_ids, game_start_wallClock) ==
    IF team_ids = <<>> THEN <<>>
    ELSE LET players == SortedSeq(starters[team_ids[1]])
         IN [k \in 1..Len(players) |->
               [period |-> 1, wallClockInt |-> game_start_wallClock,
                playerId |-> players[k], teamId |-> team_ids[1],
                action |-> "START", source |-> "starter"]]
            \o StarterChanges(starters, Tail(team_ids), game_start_wallClock)

\* lines 120-146: the OUT and IN rows of one substitution; a participant
\* with no team in the mapping gives no row
SubstitutionChanges(sub, team_mapping) ==
    LET change(player, action) ==
            IF player \in DOMAIN team_mapping
            THEN <<[period |-> sub.period, wallClockInt |-> sub.wallClockInt,
                    playerId |-> player, teamId |-> team_mapping[player],
                    action |-> action, source |-> "substitution"]>>
            ELSE <<>>
    IN change(sub.playerId1, "OUT") \o change(sub.playerId2, "IN")

RECURSIVE AllSubstitutionChanges(_, _, _)
AllSubstitutionChanges(substitutions, n, team_mapping) ==
    IF n = 0 THEN <<>>
    ELSE AllSubstitutionChanges(substitutions, n - 1, team_mapping)
         \o SubstitutionChanges(substitutions[n], team_mapping)

\* line 153: sort_values(['period', 'wallClockInt', 'action']); the actions
\* sort as strings, 'IN' < 'OUT' < 'START'
ActionRank(action) ==
    CASE action = "IN" -> 1 [] action = "OUT" -> 2 [] action = "START" -> 3

StatusChangeKey(change) == <<change.period, change.wallClockInt, ActionRank(change.action)>>

\* lines 102-153: status_df
StatusChanges(starters, team_mapping, substitutions, activities, pbp_df) ==
    LET status_changes ==
            StarterChanges(starters, SortedSeq(DOMAIN starters), GameStartWallClock(pbp_df))
            \o AllSubstitutionChanges(substitutions, Len(substitutions), team_mapping)
            \o _infer_reentries_from_activity(activities, substitutions, team_mapping)
    IN StableSort(status_changes,
                  [i \in 1..Len(status_changes) |-> StatusChangeKey(status_changes[i])])

\* player_entry_times keeps its keys in insertion order: a sequence of
\* entries, at most one per player
EntryIndex(entries, player_id) ==
    {k \in 1..Len(entries) : entries[k].playerId = player_id}

\* lines 256-260: player_entry_times[player_id] = (period, wallClock, team)
WithEntry(entries, change) ==
    LET entry == [playerId |-> change.playerId, period |-> change.period,
                  wallClockInt |-> change.wallClockInt, teamId |-> change.teamId]
    IN IF EntryIndex(entries, change.playerId) = {}
       THEN Append(entries, entry)
       ELSE [k \in 1..Len(entries) |->
               IF entries[k].playerId = change.playerId THEN entry ELSE entries[k]]

\* an OUT row that leaves the entry of its player in place
WithoutEntry_Kept(entries, player_id) == entries

\* line 276: del player_entry_times[player_id]
WithoutEntry(entries, player_id) ==
    SelectSeq(entries, LAMBDA e : e.playerId # player_id)

\* an interval of an entry, closed at (period_end, wallClock_end)
Interval(game_id, entry, period_end, wallClock_end) ==
    [gameId |-> game_id, playerId |-> entry.playerId, teamId |-> entry.teamId,
     period_start |-> entry.period, wallClock_start |-> entry.wallClockInt,
     period_end |-> period_end, wallClock_end |-> wallClock_end]

\* lines 251-276: the loop over status_df from row i on; gives the intervals
\* closed by OUT rows and the entries left open
RECURSIVE StatusLoop(_, _, _, _, _)
StatusLoop(status_df, i, game_id, entries, closed) ==
    IF i > Len(status_df) THEN [closed |-> closed, entries |-> entries]
    ELSE LET change == status_df[i]
             at == EntryIndex(entries, change.playerId)
         IN IF change.action \in {"START", "IN"}
            THEN StatusLoop(status_df, i + 1, game_id, WithEntry(entries, change), closed)
            ELSE IF change.action = "OUT" /\ at # {}
                 THEN StatusLoop(status_df, i + 1, game_id,
                         WithoutEntry(entries, change.playerId),
                         Append(closed,
                                Interval(game_id, entries[CHOOSE k \in at : TRUE],
                                         change.period, change.wallClockInt)))
                 ELSE StatusLoop(status_df, i + 1, game_id, entries, closed)

\* line 279: max_period = status_df['period'].max()
FinalPeriod(status_df, pbp_df) ==
    Max({status_df[i].period : i \in 1..Len(status_df)})

\* lines 278-289: the intervals of the players still on court at game end
OpenIntervals(entries, game_id, max_period, game_end_wallClock) ==
    [k \in 1..Len(entries) |->
        Interval(game_id, entries[k], max_period, game_end_wallClock)]

\* _build_hybrid_intervals, from line 97 on, with
\* _build_intervals_from_status_changes
_build_hybrid_intervals(starters, team_mapping, substitutions, activities, pbp_df) ==
    LET game_id == pbp_df[1].gameId
        status_df == StatusChanges(starters, team_mapping, substitutions,
                                   activities, pbp_df)
        loop == StatusLoop(status_df, 1, game_id, <<>>, <<>>)
    IN loop.closed
       \o OpenIntervals(loop.entries, game_id, FinalPeriod(status_df, pbp_df),
                        GameEndWallClock(pbp_df))

\* track_lineup_states when _get_player_activities does not raise
track_lineup_states(box, pbp_df) ==
    _build_hybrid_intervals(_get_starting_lineups(box), _get_team_mapping(box),
                            _get_substitution_events(pbp_df),
                            _get_player_activities(pbp_df), pbp_df)

\* the box score of the game is read
ReadCourtBoxScore ==
    /\ pc = "court_start"
    /\ \E box \in CourtBoxScores : box_score_df' = box
    /\ pc' = "court_feed"
    /\ UNCHANGED <<err, teams, current_lineups, lineup_timeline, row_origin,
                   cur_period, last_clock, sub_count, last_sub, lineup_states,
                   match_idx, matched, possVars, courtVars, rimVars, ratingVars, rerunVars, filterVars>>

\* one more row of pbp_df
AddCourtEvent ==
    /\ pc = "court_feed"
    /\ Len(pbp) < MaxCourtEvents
    /\ \E kind \in CourtEventKinds, period \in PlayPeriods :
       \E wall_clock \in CourtClocks(period) :
         /\ InCourtOrder(pbp, period, wall_clock)
         /\ pbp' = Append(pbp, CourtRow(kind, period, wall_clock))
    /\ UNCHANGED <<pc, err, lineupVars, courtVars, rimVars, ratingVars, rerunVars, filterVars, possessions, player_poss>>

\* track_lineup_states on a feed of at least one row
TrackLineupStates ==
    /\ pc = "court_feed"
    /\ pbp # <<>>
    /\ IF PlayerActivitiesRaise(pbp)
       THEN /\ pc' = "failed"
            /\ err' = "KeyError"
            /\ UNCHANGED intervals
       ELSE /\ pc' = "tracked"
            /\ intervals' = track_lineup_states(box_score_df, pbp)
            /\ UNCHANGED err
    /\ UNCHANGED <<lineupVars, possVars, rimVars, ratingVars, rerunVars, filterVars>>

InitCourt ==
    /\ pc = "court_start"
    /\ NothingBuilt

NextCourt ==
    \/ ReadCourtBoxScore
    \/ AddCourtEvent
    \/ TrackLineupStates

SpecCourt == InitCourt /\ [][NextCourt]_vars

-----------------------------------------------------------------------------
(* The substitution rows of the same feed as lineup_states.py reads them *)

\* _parse_substitutions, lines 69-95: the rows with msgType 8 and both
\* participants; playerId1 is read as the player coming in and playerId2 as
\* the player going out.  The sort of line 95 is the order of the feed.
_parse_substitutions(pbp_df) ==
    LET subs == SelectSeq(pbp_df, LAMBDA r : /\ r.msgType = 8
                                             /\ r.playerId1 # NaN
                                             /\ r.playerId2 # NaN)
    IN [k \in 1..Len(subs) |->
          [period |-> subs[k].period, wallClockInt |-> subs[k].wallClockInt,
           player_in |-> subs[k].playerId1, player_out |-> subs[k].playerId2]]

\* _build_lineup_timeline, lines 131-143, for one team: the lineup after the
\* first n substitution rows
RECURSIVE LineupAfterSubstitutions(_, _, _)
LineupAfterSubstitutions(lineup, substitutions, n) ==
    IF n = 0 THEN lineup
    ELSE LET before == LineupAfterSubstitutions(lineup, substitutions, n - 1)
         IN IF SubstitutionIsValid(before, substitutions[n])
            THEN MakeSubstitution(before, substitutions[n])
            ELSE before

-----------------------------------------------------------------------------
(* Input domain of the rim-defense tracker: intervals and enhanced feed *)

\* players of the interval rows and their teams
RimPlayers == {101, 102, 201}
RimTeamOf(player_id) == IF player_id < 200 THEN 1 ELSE 2

\* the stretches a player may have spent on court:
\* <<period_start, wallClock_start, period_end, wallClock_end>>
RimSpans(player_id) ==
    CASE player_id = 101 -> {<<1, 100, 1, 120>>, <<2, 150, 2, 200>>}
      [] player_id = 102 -> {<<1, 100, 2, 200>>}
      [] player_id = 201 -> {<<1, 100, 1, 120>>, <<1, 100, 2, 200>>}

IntervalRow(player_id, span) ==
    [gameId |-> "G1", playerId |-> player_id, teamId |-> RimTeamOf(player_id),
     period_start |-> span[1], wallClock_start |-> span[2],
     period_end |-> span[3], wallClock_end |-> span[4]]

\* track_lineup_states gives a player no two intervals that overlap
FitsIntervals(rows, row) ==
    \A k \in 1..Len(rows) :
        rows[k].playerId = row.playerId =>
            \/ rows[k].wallClock_end <= row.wallClock_start
            \/ row.wallClock_end <= rows[k].wallClock_start

\* the instants of the shots: <<period, wallClockInt>>
ShotTimes == {<<1, 100>>, <<1, 130>>, <<2, 150>>}

\* offTeamId and defTeamId of a shot row; NaN where the feed names no team
ShotTeams == {<<1, 2>>, <<2, 1>>, <<NaN, 1>>}

\* rows of enhanced_pbp_df: shots made (msgType 1) and missed (msgType 2),
\* at the rim or away from it
ShotRows ==
    {[period |-> at[1], wallClockInt |-> at[2], msgType |-> m,
      offTeamId |-> tp[1], defTeamId |-> tp[2], is_rim_shot |-> TRUE] :
        at \in ShotTimes, m \in {1, 2}, tp \in ShotTeams}
    \cup {[period |-> at[1], wallClockInt |-> at[2], msgType |-> 1,
           offTeamId |-> 2, defTeamId |-> 1, is_rim_shot |-> FALSE] :
            at \in ShotTimes}

-----------------------------------------------------------------------------
(* players/transformers/rim_defense.py *)

\* a float of a result column: null (NaN) or the fraction num / den
NullFloat == [null |-> TRUE, num |-> 0, den |-> 1]
Fraction(num, den) == [null |-> FALSE, num |-> num, den |-> den]

\* float subtraction; NaN on either side gives NaN
FloatMinus(a, b) ==
    IF a.null \/ b.null THEN NullFloat
    ELSE Fraction(a.num * b.den - b.num * a.den, a.den * b.den)

\* Series.replace(0, 1) of lines 124-125
ReplaceZeroByOne(attempts) == IF attempts = 0 THEN 1 ELSE attempts

\* Series.where(attempts > 0, None) of lines 129-130
WhereAttempted(pct, attempts) == IF attempts > 0 THEN pct ELSE NullFloat

\* _get_player_team_mapping: a dict keeps its keys in order of first
\* insertion and the value of the last assignment
RECURSIVE PlayerTeamsFrom(_, _)
PlayerTeamsFrom(lineup_intervals, n) ==
    IF n = 0 THEN <<>>
    ELSE LET player_teams == PlayerTeamsFrom(lineup_intervals, n - 1)
             interval == lineup_intervals[n]
             entry == [playerId |-> interval.playerId, teamId |-> interval.teamId]
         IN IF \E k \in 1..Len(player_teams) : player_teams[k].playerId = interval.playerId
            THEN [k \in 1..Len(player_teams) |->
                    IF player_teams[k].playerId = interval.playerId
                    THEN entry ELSE player_teams[k]]
            ELSE Append(player_teams, entry)

_get_player_team_mapping(lineup_intervals) ==
    PlayerTeamsFrom(lineup_intervals, Len(lineup_intervals))

\* line 24: the rows flagged is_rim_shot
RimShotsOf(enhanced_pbp_df) == SelectSeq(enhanced_pbp_df, LAMBDA r : r.is_rim_shot)

\* lines 73-78: the interval holds the shot
OnCourtAt(interval, shot) ==
    /\ interval.period_start <= shot.period
    /\ interval.period_end >= shot.period
    /\ interval.wallClock_start <= shot.wallClockInt
    /\ interval.wallClock_end >= shot.wallClockInt

\* lines 73-83: defending_players
DefendingPlayers(lineup_intervals, shot) ==
    {lineup_intervals[k].playerId :
        k \in {j \in 1..Len(lineup_intervals) :
                  /\ OnCourtAt(lineup_intervals[j], shot)
                  /\ lineup_intervals[j].teamId = shot.defTeamId}}

\* line 86: defensive_team_players, in the order of player_teams
DefensiveTeamPlayers(player_teams, defensive_team) ==
    LET of_team == SelectSeq(player_teams, LAMBDA e : e.teamId = defensive_team)
    IN [k \in 1..Len(of_team) |-> of_team[k].playerId]

\* lines 90-95: the zeroed stats of a player not seen before
NewPlayerStats(player_id, defensive_team) ==
    [playerId |-> player_id, teamId |-> defensive_team,
     on_makes |-> 0, on_attempts |-> 0, off_makes |-> 0, off_attempts |-> 0]

\* a count that credits a shot to both buckets of a player on court
CountShot_BothBuckets(stats, on_court, shot_made) ==
    LET made == IF shot_made THEN 1 ELSE 0 IN
    IF on_court
    THEN [stats EXCEPT !.on_attempts = @ + 1, !.on_makes = @ + made,
                       !.off_attempts = @ + 1, !.off_makes = @ + made]
    ELSE [stats EXCEPT !.off_attempts = @ + 1, !.off_makes = @ + made]

\* lines 98-107: one shot counted for one player of the defending team
CountShot(stats, on_court, shot_made) ==
    LET made == IF shot_made THEN 1 ELSE 0 IN
    IF on_court
    THEN [stats EXCEPT !.on_attempts = @ + 1, !.on_makes = @ + made]
    ELSE [stats EXCEPT !.off_attempts = @ + 1, !.off_makes = @ + made]

\* lines 88-107: the loop over defensive_team_players from player i on
RECURSIVE CountForPlayers(_, _, _, _, _)
CountForPlayers(player_stats, players, i, shot, defending_players) ==
    IF i > Len(players) THEN player_stats
    ELSE LET player_id == players[i]
             seen == \E k \in 1..Len(player_stats) : player_stats[k].playerId = player_id
             with_player == IF seen THEN player_stats
                            ELSE Append(player_stats,
                                        NewPlayerStats(player_id, shot.defTeamId))
             counted == [k \in 1..Len(with_player) |->
                           IF with_player[k].playerId = player_id
                           THEN CountShot(with_player[k],
                                          player_id \in defending_players,
                                          shot.msgType = 1)
                           ELSE with_player[k]]
         IN CountForPlayers(counted, players, i + 1, shot, defending_players)

\* lines 56-107: the loop over rim_shots from shot i on; a shot with a team
\* missing is passed over (line 66)
RECURSIVE CountShots(_, _, _, _, _)
CountShots(player_stats, rim_shots, i, lineup_intervals, player_teams) ==
    IF i > Len(rim_shots) THEN player_stats
    ELSE LET shot == rim_shots[i] IN
         IF shot.offTeamId = NaN \/ shot.defTeamId = NaN
         THEN CountShots(player_stats, rim_shots, i + 1, lineup_intervals, player_teams)
         ELSE CountShots(
                 CountForPlayers(player_stats,
                                 DefensiveTeamPlayers(player_teams, shot.defTeamId),
                                 1, shot, DefendingPlayers(lineup_intervals, shot)),
                 rim_shots, i + 1, lineup_intervals, player_teams)

\* lines 110-130: the result row of a player
RimDefenseRow(stats) ==
    LET rim_fg_pct_on == Fraction(stats.on_makes, ReplaceZeroByOne(stats.on_attempts))
        rim_fg_pct_off == Fraction(stats.off_makes, ReplaceZeroByOne(stats.off_attempts))
    IN [playerId |-> stats.playerId, teamId |-> stats.teamId,
        rim_fgm_on |-> stats.on_makes, rim_fga_on |-> stats.on_attempts,
        rim_fgm_off |-> stats.off_makes, rim_fga_off |-> stats.off_attempts,
        rim_fg_pct_on |-> WhereAttempted(rim_fg_pct_on, stats.on_attempts),
        rim_fg_pct_off |-> WhereAttempted(rim_fg_pct_off, stats.off_attempts),
        rim_fg_pct_diff |-> FloatMinus(rim_fg_pct_on, rim_fg_pct_off)]

\* player_stats after the loop of _calculate_rim_defense_stats
RimPlayerStats(enhanced_pbp_df, lineup_intervals) ==
    CountShots(<<>>, RimShotsOf(enhanced_pbp_df), 1, lineup_intervals,
               _get_player_team_mapping(lineup_intervals))

\* line 124: a frame built from an empty list has no column 'rim_fgm_on'
RimDefenseRaises(enhanced_pbp_df, lineup_intervals) ==
    RimPlayerStats(enhanced_pbp_df, lineup_intervals) = <<>>

\* track_rim_defense when line 124 does not raise
track_rim_defense(enhanced_pbp_df, lineup_intervals) ==
    LET player_stats == RimPlayerStats(enhanced_pbp_df, lineup_intervals)
    IN [k \in 1..Len(player_stats) |-> RimDefenseRow(player_stats[k])]

\* one more row of lineup_intervals
AddInterval ==
    /\ pc = "rim_feed"
    /\ pbp = <<>>
    /\ Len(intervals) < MaxIntervals
    /\ \E player_id \in RimPlayers :
       \E span \in RimSpans(player_id) :
         /\ FitsIntervals(intervals, IntervalRow(player_id, span))
         /\ intervals' = Append(intervals, IntervalRow(player_id, span))
    /\ UNCHANGED <<pc, err, lineupVars, possVars, rimVars, ratingVars, rerunVars, filterVars>>

\* one more row of enhanced_pbp_df, in game order
AddShot ==
    /\ pc = "rim_feed"
    /\ Len(pbp) < MaxRimShots
    /\ \E shot \in ShotRows :
         /\ IF pbp = <<>> THEN TRUE
            ELSE pbp[Len(pbp)].wallClockInt <= shot.wallClockInt
         /\ pbp' = Append(pbp, shot)
    /\ UNCHANGED <<pc, err, lineupVars, courtVars, rimVars, ratingVars, rerunVars, filterVars, possessions, player_poss>>

\* track_rim_defense
TrackRimDefense ==
    /\ pc = "rim_feed"
    /\ IF RimDefenseRaises(pbp, intervals)
       THEN /\ pc' = "failed"
            /\ err' = "KeyError"
            /\ UNCHANGED rim_defense
       ELSE /\ pc' = "rim_tracked"
            /\ rim_defense' = track_rim_defense(pbp, intervals)
            /\ UNCHANGED err
    /\ UNCHANGED <<lineupVars, possVars, courtVars, ratingVars, rerunVars, filterVars>>

InitRim ==
    /\ pc = "rim_feed"
    /\ NothingBuilt

NextRim ==
    \/ AddInterval
    \/ AddShot
    \/ TrackRimDefense

SpecRim == InitRim /\ [][NextRim]_vars

-----------------------------------------------------------------------------
(* Input domain of the lineup ratings: rows of lineup_possessions_df *)

\* the units of the rows: team label and the five player columns in the
\* order the row lists them (the second unit lists the players of the
\* first in another order)
RatingUnits ==
    {[team |-> "HOU", players |-> <<101, 102, 103, 104, 105>>],
     [team |-> "HOU", players |-> <<102, 101, 103, 104, 105>>],
     [team |-> "HOU", players |-> <<101, 102, 103, 104, 106>>],
     [team |-> "DAL", players |-> <<201, 202, 203, 204, 205>>]}

\* points_scored of a possession
RatingPoints == {0, 2}

\* a row of lineup_possessions_df (create_possession_record): the columns
\* calculate_lineup_ratings reads
LineupPossessionRow(id, off, def, points) ==
    [possession_id |-> id, points_scored |-> points,
     off_team |-> off.team, off_players |-> off.players,
     def_team |-> def.team, def_players |-> def.players]

-----------------------------------------------------------------------------
(* lineups/transformers/lineup_ratings.py *)

\* a unit key that keeps the players in column order
LineupPlayers_Unsorted(players) == players

\* lines 60-63 and 83-86: tuple(sorted([player_1, ..., player_5]))
LineupPlayers(players) ==
    StableSort(players, [i \in 1..Len(players) |-> <<players[i]>>])

\* the group key of a row on one side: (team, lineup_players)
OffKey(row) == <<row.off_team, LineupPlayers(row.off_players)>>
DefKey(row) == <<row.def_team, LineupPlayers(row.def_players)>>

\* groupby sorts its keys: by team label, then by the player tuple
GroupKeyLess(a, b) ==
    \/ TeamRank[a[1]] < TeamRank[b[1]]
    \/ a[1] = b[1] /\ LexLess(a[2], b[2])

RECURSIVE SortedKeys(_)
SortedKeys(keys) ==
    IF keys = {} THEN <<>>
    ELSE LET first == CHOOSE k \in keys : \A other \in keys \ {k} : GroupKeyLess(k, other)
         IN <<first>> \o SortedKeys(keys \ {first})

\* agg 'sum' of points_scored over rows
RECURSIVE SumPoints(_)
SumPoints(rows) ==
    IF rows = <<>> THEN 0 ELSE rows[1].points_scored + SumPoints(Tail(rows))

\* calculate_offensive_stats: one row per (off_team, lineup_players)
calculate_offensive_stats(df) ==
    LET keys == SortedKeys({OffKey(df[i]) : i \in 1..Len(df)})
    IN [g \in 1..Len(keys) |->
          LET rows == SelectSeq(df, LAMBDA r : OffKey(r) = keys[g])
          IN [team |-> keys[g][1], lineup_players |-> keys[g][2],
              off_poss |-> Len(rows), off_points |-> SumPoints(rows)]]

\* defensive stats grouped by the offensive columns
calculate_defensive_stats_ByOffense(df) ==
    LET keys == SortedKeys({OffKey(df[i]) : i \in 1..Len(df)})
    IN [g \in 1..Len(keys) |->
          LET rows == SelectSeq(df, LAMBDA r : OffKey(r) = keys[g])
          IN [team |-> keys[g][1], lineup_players |-> keys[g][2],
              def_poss |-> Len(rows), def_points_allowed |-> SumPoints(rows)]]

\* calculate_defensive_stats: one row per (def_team, lineup_players)
calculate_defensive_stats(df) ==
    LET keys == SortedKeys({DefKey(df[i]) : i \in 1..Len(df)})
    IN [g \in 1..Len(keys) |->
          LET rows == SelectSeq(df, LAMBDA r : DefKey(r) = keys[g])
          IN [team |-> keys[g][1], lineup_players |-> keys[g][2],
              def_poss |-> Len(rows), def_points_allowed |-> SumPoints(rows)]]

\* the keys of a stats frame
StatKeys(stats) == {<<stats[g].team, stats[g].lineup_players>> : g \in 1..Len(stats)}

\* a merge that keeps only the units found on both sides
MergedKeys_Inner(off_stats, def_stats) ==
    SortedKeys(StatKeys(off_stats) \cap StatKeys(def_stats))

\* lines 104-107: how='outer' keeps the keys of either side, sorted
MergedKeys(off_stats, def_stats) ==
    SortedKeys(StatKeys(off_stats) \cup StatKeys(def_stats))

\* combine_offensive_defensive_stats: the outer merge, with fillna(0) for
\* the side a unit is missing from
combine_offensive_defensive_stats(off_stats, def_stats) ==
    LET keys == MergedKeys(off_stats, def_stats)
        of(stats, key) ==
            SelectSeq(stats, LAMBDA r : <<r.team, r.lineup_players>> = key)
    IN [g \in 1..Len(keys) |->
          LET off == of(off_stats, keys[g])
              def == of(def_stats, keys[g])
          IN [team |-> keys[g][1], lineup_players |-> keys[g][2],
              off_poss |-> IF off = <<>> THEN 0 ELSE off[1].off_poss,
              off_points |-> IF off = <<>> THEN 0 ELSE off[1].off_points,
              def_poss |-> IF def = <<>> THEN 0 ELSE def[1].def_poss,
              def_points_allowed |->
                  IF def = <<>> THEN 0 ELSE def[1].def_points_allowed]]

\* lines 125-136: np.where(poss > 0, (points / poss) * 100, 0), as the
\* fraction num / den
RatingPer100(points, poss) ==
    IF poss > 0 THEN [num |-> points * 100, den |-> poss] ELSE [num |-> 0, den |-> 1]

\* line 139: off_rating - def_rating, before any rounding
RatingMinus(a, b) == [num |-> a.num * b.den - b.num * a.den, den |-> a.den * b.den]

\* a rounding that cuts the digits after the first decimal
RoundTenths_Truncate(rating) == (10 * rating.num) \div rating.den

\* line 144: round(1), to the nearest tenth and to the even tenth at a tie;
\* the result counted in tenths
RoundTenths(rating) ==
    LET floor == (10 * rating.num) \div rating.den
        rest == (10 * rating.num) % rating.den
    IN IF 2 * rest < rating.den THEN floor
       ELSE IF 2 * rest > rating.den THEN floor + 1
       ELSE IF floor % 2 = 0 THEN floor ELSE floor + 1

\* calculate_final_ratings
calculate_final_ratings(df) ==
    [g \in 1..Len(df) |->
        LET off_rating == RatingPer100(df[g].off_points, df[g].off_poss)
            def_rating == RatingPer100(df[g].def_points_allowed, df[g].def_poss)
        IN [team |-> df[g].team, lineup_players |-> df[g].lineup_players,
            off_poss |-> df[g].off_poss, off_points |-> df[g].off_points,
            def_poss |-> df[g].def_poss,
            def_points_allowed |-> df[g].def_points_allowed,
            off_rating |-> RoundTenths(off_rating),
            def_rating |-> RoundTenths(def_rating),
            net_rating |-> RoundTenths(RatingMinus(off_rating, def_rating))]]

\* lines 173-175: sort by team, then off_poss and net_rating descending
FinalSortKey(row) == <<TeamRank[row.team], 0 - row.off_poss, 0 - row.net_rating>>

\* clean_final_output: the final columns, sorted
clean_final_output(df) ==
    LET result == [g \in 1..Len(df) |->
                      [team |-> df[g].team, players |-> df[g].lineup_players,
                       off_poss |-> df[g].off_poss, def_poss |-> df[g].def_poss,
                       off_rating |-> df[g].off_rating,
                       def_rating |-> df[g].def_rating,
                       net_rating |-> df[g].net_rating]]
    IN StableSort(result, [g \in 1..Len(result) |-> FinalSortKey(df[g])])

\* calculate_lineup_ratings
calculate_lineup_ratings(lineup_possessions_df) ==
    IF lineup_possessions_df = <<>> THEN <<>>
    ELSE clean_final_output(
            calculate_final_ratings(
               combine_offensive_defensive_stats(
                  calculate_offensive_stats(lineup_possessions_df),
                  calculate_defensive_stats(lineup_possessions_df))))

\* one more row of lineup_possessions_df: a possession of one team
\* against the other
AddLineupPossession ==
    /\ pc = "rating_feed"
    /\ Len(lineup_possessions) < MaxRatingRows
    /\ \E off \in RatingUnits, def \in RatingUnits, points \in RatingPoints :
         /\ off.team # def.team
         /\ lineup_possessions' =
               Append(lineup_possessions,
                      LineupPossessionRow(Len(lineup_possessions) + 1, off, def, points))
    /\ UNCHANGED <<pc, err, lineupVars, possVars, courtVars, rimVars, rerunVars, filterVars, lineup_ratings>>

\* calculate_lineup_ratings
CalculateLineupRatings ==
    /\ pc = "rating_feed"
    /\ pc' = "rated"
    /\ lineup_ratings' = calculate_lineup_ratings(lineup_possessions)
    /\ UNCHANGED <<err, lineupVars, possVars, courtVars, rimVars, rerunVars, filterVars, lineup_possessions>>

InitRatings ==
    /\ pc = "rating_feed"
    /\ NothingBuilt

NextRatings ==
    \/ AddLineupPossession
    \/ CalculateLineupRatings

SpecRatings == InitRatings /\ [][NextRatings]_vars

-----------------------------------------------------------------------------
(* Attribution and aggregation run on given tables:                        *)
(* match_lineups_to_possessions, then calculate_lineup_ratings             *)

MaxJoinRows == 2       \* rows of possessions_df handed to the join

\* lineup tables as extract_lineup_states returns them (sorted by team,
\* period, game_clock_seconds): the period-opening rows of period 1 and
\* substitution rows of HOU
JoinTimelines ==
    {<<>>,
     <<TimelineRow(1, Clock(12, 0), 720, "DAL", {201, 202, 203, 204, 205}),
       TimelineRow(1, Clock(12, 0), 720, "HOU", {101, 102, 103, 104, 105})>>,
     <<TimelineRow(1, Clock(12, 0), 720, "DAL", {201, 202, 203, 204, 205}),
       TimelineRow(1, Clock(4, 0), 240, "HOU", {101, 102, 103, 104, 106}),
       TimelineRow(1, Clock(12, 0), 720, "HOU", {101, 102, 103, 104, 105})>>,
     <<TimelineRow(1, Clock(12, 0), 720, "DAL", {201, 202, 203, 204, 205}),
       TimelineRow(1, Clock(12, 0), 720, "HOU", {101, 102, 103, 104, 105}),
       TimelineRow(1, Clock(12, 0), 720, "HOU", {101, 102, 103, 104, 106})>>,
     <<TimelineRow(1, Clock(12, 0), 720, "HOU", {101, 102, 103, 104, 105})>>}

JoinLineupTables == {SortLineupStates(timeline) : timeline \in JoinTimelines}

\* a row of possessions_df: the columns the join reads
JoinPossessionRows(id) ==
    {[possession_id |-> id, period |-> 1, start_time_seconds |-> t,
      off_team |-> tp[1], def_team |-> tp[2], points_scored |-> points] :
        t \in {720, 0}, tp \in TeamPairs, points \in RatingPoints}

\* the orders a sort may leave rows of equal key in: as they were, or reversed
TieOrders == {"kept", "reversed"}

Reversed(s) == [i \in 1..Len(s) |-> s[Len(s) + 1 - i]]

\* sort_values of one column in one process: a sort that is not stable but
\* returns the same order whenever it is given the same frame
SortedFrame(s, keys, tie) ==
    IF tie = "kept" THEN StableSort(s, keys)
    ELSE StableSort(Reversed(s), Reversed(keys))

\* find_lineup_at_time under the order the sort of line 75 gives
LineupAtTime(lineups_df, period, time_seconds, team_id, tie) ==
    LET team_lineups ==
            SelectSeq(lineups_df, LAMBDA r : r.team_id = team_id /\ r.period = period)
    IN IF team_lineups = <<>>
       THEN <<>>
       ELSE ActiveLineup(
               SortedFrame(team_lineups,
                   [i \in 1..Len(team_lineups) |-> ClockDescendingKey(team_lineups[i])],
                   tie),
               time_seconds)

\* a results list that keeps the records of the call before
NewResults_Carried(previous) == previous

\* line 33: results = []
NewResults(previous) == <<>>

\* lines 35-49: the loop over possessions.iterrows(), from row i on
RECURSIVE MatchLoop(_, _, _, _, _)
MatchLoop(lineups, possessions_df, i, results, tie) ==
    IF i > Len(possessions_df) THEN results
    ELSE LET poss == possessions_df[i]
             off_lineup == LineupAtTime(lineups, poss.period,
                               poss.start_time_seconds, poss.off_team, tie)
             def_lineup == LineupAtTime(lineups, poss.period,
                               poss.start_time_seconds, poss.def_team, tie)
         IN MatchLoop(lineups, possessions_df, i + 1,
               IF off_lineup # <<>> /\ def_lineup # <<>>
               THEN Append(results,
                        create_possession_record(poss, off_lineup[1], def_lineup[1]))
               ELSE results,
               tie)

\* clean_output_data: the coercions change no value of the model; line 151
\* sorts by possession_id
clean_output_data(df, tie) ==
    SortedFrame(df, [i \in 1..Len(df) |-> <<df[i].possession_id>>], tie)

\* match_lineups_to_possessions: the results list it leaves and the frame
\* it returns
match_lineups_to_possessions(lineup_states_df, possessions_df, previous, tie) ==
    IF possessions_df = <<>> \/ lineup_states_df = <<>>
    THEN [results |-> previous, df |-> <<>>]
    ELSE LET results == MatchLoop(lineup_states_df, possessions_df, 1,
                                  NewResults(previous), tie)
         IN [results |-> results,
             df |-> IF results = <<>> THEN <<>> ELSE clean_output_data(results, tie)]

\* the lineup table handed to the join, and the order the sorts of the
\* process leave equal keys in
LoadLineupStates ==
    /\ pc = "join_start"
    /\ pc' = "join_feed"
    /\ lineup_states' \in JoinLineupTables
    /\ tie_order' \in TieOrders
    /\ UNCHANGED <<err, box_score_df, teams, current_lineups, lineup_timeline,
                   row_origin, cur_period, last_clock, sub_count, last_sub,
                   match_idx, matched, possVars, courtVars, rimVars, ratingVars, runs,
                   filterVars>>

\* one more row of possessions_df
AddPossessionRow ==
    /\ pc = "join_feed"
    /\ Len(possessions) < MaxJoinRows
    /\ \E row \in JoinPossessionRows(Len(possessions) + 1) :
          possessions' = Append(possessions, row)
    /\ UNCHANGED <<pc, err, lineupVars, pbp, player_poss, courtVars, rimVars,
                   ratingVars, rerunVars, filterVars>>

\* one run of the two stages on the tables: both work on copies (lines
\* 29-30 of lineup_possessions.py, lines 57, 80 and 121 of lineup_ratings.py)
RunAttributionAndRatings ==
    /\ pc \in {"join_feed", "join_ran"}
    /\ Len(runs) < 2
    /\ pc' = "join_ran"
    /\ LET out == match_lineups_to_possessions(lineup_states, possessions,
                                               matched, tie_order)
           ratings == calculate_lineup_ratings(out.df)
       IN /\ matched' = out.results
          /\ lineup_possessions' = out.df
          /\ lineup_ratings' = ratings
          /\ runs' = Append(runs, ratings)
    /\ UNCHANGED <<err, box_score_df, teams, current_lineups, lineup_timeline,
                   row_origin, cur_period, last_clock, sub_count, last_sub,
                   lineup_states, match_idx, possVars, courtVars, rimVars, tie_order,
                   filterVars>>

InitJoin ==
    /\ pc = "join_start"
    /\ NothingBuilt

NextJoin ==
    \/ LoadLineupStates
    \/ AddPossessionRow
    \/ RunAttributionAndRatings

SpecJoin == InitJoin /\ [][NextJoin]_vars

-----------------------------------------------------------------------------
(* filter_lineups on a rating table *)

MaxFilterRows == 3     \* rows of ratings_df handed to filter_lineups

\* units of the rating rows (players sorted, as clean_final_output leaves them)
FilterUnits ==
    {[team |-> "DAL", players |-> <<201, 202, 203, 204, 205>>],
     [team |-> "HOU", players |-> <<101, 102, 103, 104, 105>>],
     [team |-> "HOU", players |-> <<101, 102, 103, 104, 106>>],
     [team |-> "HOU", players |-> <<101, 102, 103, 105, 106>>]}

\* <<off_poss, def_poss>> of a rating row
FilterCounts == {<<3, 2>>, <<15, 12>>, <<5, 0>>, <<0, 5>>, <<4, 10>>}

FilterThresholds == {5, 10}

\* a row of the rating table of a unit that neither scored nor allowed a point
RatingRow(unit, counts) ==
    [team |-> unit.team, players |-> unit.players,
     off_poss |-> counts[1], def_poss |-> counts[2],
     off_rating |-> 0, def_rating |-> 0, net_rating |-> 0]

\* a condition that wants both counts to reach the threshold
KeepsLineup_Both(row, m) == row.off_poss >= m /\ row.def_poss >= m

\* lines 221-224: off_poss >= min_possessions or def_poss >= min_possessions
KeepsLineup(row, m) == row.off_poss >= m \/ row.def_poss >= m

\* filter_lineups
filter_lineups(ratings_df, m) ==
    IF ratings_df = <<>> THEN ratings_df
    ELSE SelectSeq(ratings_df, LAMBDA row : KeepsLineup(row, m))

\* one more row of the rating table, in the order clean_final_output sorts
\* it: team, off_poss descending, net_rating descending
AddRatingRow ==
    /\ pc = "filter_feed"
    /\ Len(lineup_ratings) < MaxFilterRows
    /\ \E unit \in FilterUnits, counts \in FilterCounts :
         LET row == RatingRow(unit, counts)
         IN /\ \A g \in 1..Len(lineup_ratings) :
                  /\ <<lineup_ratings[g].team, lineup_ratings[g].players>> #
                        <<unit.team, unit.players>>
                  /\ ~LexLess(FinalSortKey(row), FinalSortKey(lineup_ratings[g]))
            /\ lineup_ratings' = Append(lineup_ratings, row)
    /\ UNCHANGED <<pc, err, lineupVars, possVars, courtVars, rimVars,
                   lineup_possessions, rerunVars, filterVars>>

\* filter_lineups(ratings_df, min_possessions)
FilterLineups ==
    /\ pc = "filter_feed"
    /\ pc' = "filtered"
    /\ \E m \in FilterThresholds :
         /\ min_possessions' = m
         /\ filtered' = filter_lineups(lineup_ratings, m)
    /\ UNCHANGED <<err, lineupVars, possVars, courtVars, rimVars, ratingVars,
                   rerunVars>>

InitFilter ==
    /\ pc = "filter_feed"
    /\ NothingBuilt

NextFilter ==
    \/ AddRatingRow
    \/ FilterLineups

SpecFilter == InitFilter /\ [][NextFilter]_vars

-----------------------------------------------------------------------------
(* Claims about the lineup timeline builder *)

\* C1: a substitution row whose outgoing player is not in the team's on-court
\* set, or whose incoming player already is, changes nothing: the on-court
\* sets and the timeline stay as they were and no error is raised.
C1_MalformedSubstitutionChangesNothing ==
    [][(/\ pc = "build_timeline"
        /\ sub_count' = sub_count + 1
        /\ last_sub'.sub.team \in DOMAIN current_lineups
        /\ \/ last_sub'.sub.player_out \notin current_lineups[last_sub'.sub.team]
           \/ last_sub'.sub.player_in \in current_lineups[last_sub'.sub.team])
       => (/\ current_lineups' = current_lineups
           /\ lineup_timeline' = lineup_timeline
           /\ pc' = "build_timeline"
           /\ err' = "none")]_vars

\* a malformed substitution row has just been read: the incoming player was
\* already on court, or the outgoing player was not
C1_Witness ==
    /\ pc = "build_timeline"
    /\ last_sub.outcome = "skipped"
    /\ last_sub.sub.team \in DOMAIN current_lineups
    /\ last_sub.sub.player_in \in current_lineups[last_sub.sub.team]
    /\ Len(lineup_timeline) > Len(teams)

FiveDistinct(row) == Len(row.players) = 5 /\ Cardinality(Range(row.players)) = 5

\* C2: every lineup row, in the timeline and in the sorted output, holds
\* exactly five distinct player ids.
C2_RowsHoldFivePlayers ==
    /\ \A i \in 1..Len(lineup_timeline) : FiveDistinct(lineup_timeline[i])
    /\ \A i \in 1..Len(lineup_states) : FiveDistinct(lineup_states[i])

\* the rows of a game of two periods in which a substitution was applied in
\* the first and a malformed one was skipped in the second
C2_Witness ==
    /\ pc = "build_timeline"
    /\ cur_period = 5
    /\ Len(lineup_timeline) > 2 * Len(teams)
    /\ last_sub.outcome = "skipped"
    /\ \E i \in 1..Len(row_origin) :
          row_origin[i].kind = "substitution" /\ lineup_timeline[i].period = 1

BoxTeams(box) == {box[i].team : i \in 1..Len(box)}

\* C3: extract_lineup_states raises and builds no timeline whenever some team
\* of the box score has a number of flagged starters other than five, and
\* raises no such error when every team has five.
C3_StarterCountOtherThanFiveRaises ==
    pc \notin {"start", "starting_lineups"} =>
        IF \E t \in BoxTeams(box_score_df) : Len(TeamStarterIds(box_score_df, t)) # 5
        THEN err = "ValueError" /\ lineup_timeline = <<>> /\ lineup_states = <<>>
        ELSE err # "ValueError"

\* row i of the timeline is the team's latest lineup change at or before the
\* probe: no other row of its team and period lies between it and the probe
LatestChangeAtProbe(i, time_seconds) ==
    LET row == lineup_timeline[i] IN
    /\ row.game_clock_seconds >= time_seconds
    /\ \A j \in 1..Len(lineup_timeline) :
          LET other == lineup_timeline[j] IN
          (j # i /\ other.team = row.team /\ other.period = row.period) =>
              \/ other.game_clock_seconds < time_seconds
              \/ other.game_clock_seconds > row.game_clock_seconds
              \/ other.game_clock_seconds = row.game_clock_seconds /\ j < i

PostSubstitutionUnit(origin) ==
    SortedSeq((origin.before \ {origin.sub.player_out}) \cup {origin.sub.player_in})

\* C4: a possession that starts at or after a successful substitution of a
\* team, and before that team's next lineup change, is attributed to the
\* post-substitution unit on whichever side the team plays.
C4_AttributedToPostSubstitutionUnit ==
    \A k \in 1..Len(matched) : \A i \in 1..Len(lineup_timeline) :
        LET m == matched[k]
            row == lineup_timeline[i]
        IN (/\ row_origin[i].kind = "substitution"
            /\ row.period = m.period
            /\ LatestChangeAtProbe(i, m.start_time_seconds))
           => /\ row.team_id = m.off_team_id =>
                    m.off_players = PostSubstitutionUnit(row_origin[i])
              /\ row.team_id = m.def_team_id =>
                    m.def_players = PostSubstitutionUnit(row_origin[i])

-----------------------------------------------------------------------------
(* Claims about the possession engines *)

\* the frame extract_possessions works on
Clean == _prepare_pbp_data(pbp)

\* the possessions that end at play i of the prepared frame
PossessionsEndingAt(i) ==
    {k \in 1..Len(possessions) : possessions[k].pbp_end_idx = i}

\* the nearest missed shot among the five plays before play i, 0 if none
PrecedingMiss(clean, i) ==
    LET misses == {j \in 1..(i - 1) : j >= i - 5 /\ clean[j].msgType = 2}
    IN IF misses = {} THEN 0 ELSE Max(misses)

\* C5: a rebound by the team that missed the preceding shot (an offensive
\* rebound) ends no possession; a possession ends at a rebound that follows
\* a miss only when the rebounding team differs from the team that missed.
C5_OffensiveReboundKeepsPossession ==
    pc = "extracted" =>
        LET clean == Clean IN
        \A i \in 1..Len(clean) :
            (/\ clean[i].msgType = 4
             /\ PrecedingMiss(clean, i) # 0
             /\ clean[i].offTeamId_clean # NaN
             /\ clean[i].offTeamId_clean = clean[PrecedingMiss(clean, i)].offTeamId_clean)
            => PossessionsEndingAt(i) = {}

\* play j is a free throw of the shooter of play i, among the two plays
\* after it and less than `window` seconds away
FreeThrowFollows(clean, i, j, window) ==
    /\ j \in {i + 1, i + 2}
    /\ j <= Len(clean)
    /\ clean[j].msgType = 3
    /\ clean[j].period = clean[i].period
    /\ SamePlayer(clean[j].playerId1, clean[i].playerId1)
    /\ Abs(clean[j].time_elapsed - clean[i].time_elapsed) < window

\* C6: a made shot followed within the short window by a free throw of the
\* same shooter ends no possession, wherever the pair lies in the feed; a
\* possession ends at a free throw of that shooter instead.
C6_AndOneEndsAtFreeThrow ==
    pc = "extracted" =>
        LET clean == Clean IN
        \A i \in 1..Len(clean) : \A j \in 1..Len(clean) :
            (clean[i].msgType = 1 /\ FreeThrowFollows(clean, i, j, 5))
            => /\ PossessionsEndingAt(i) = {}
               /\ \E k \in 1..Len(possessions) :
                     /\ possessions[k].end_type = "free_throw"
                     /\ possessions[k].pbp_end_idx >= j
                     /\ SamePlayer(clean[possessions[k].pbp_end_idx].playerId1,
                                   clean[i].playerId1)

\* free throw j continues the run of free throw i: same period and shooter,
\* less than ten seconds later, only other kinds of plays between them
ContinuesRun(clean, i, j) ==
    /\ i < j
    /\ clean[i].msgType = 3
    /\ clean[j].msgType = 3
    /\ clean[j].period = clean[i].period
    /\ SamePlayer(clean[j].playerId1, clean[i].playerId1)
    /\ Abs(clean[j].time_elapsed - clean[i].time_elapsed) < 10
    /\ \A m \in (i + 1)..(j - 1) : clean[m].msgType # 3

\* C7: within a run of free throws of one shooter only the last one ends a
\* possession (as free_throw), however many other plays lie between them.
C7_OnlyLastFreeThrowEnds ==
    pc = "extracted" =>
        LET clean == Clean IN
        \A i \in 1..Len(clean) :
            clean[i].msgType = 3 =>
                IF \E j \in 1..Len(clean) : ContinuesRun(clean, i, j)
                THEN PossessionsEndingAt(i) = {}
                ELSE \E k \in PossessionsEndingAt(i) :
                        possessions[k].end_type = "free_throw"

\* the possession after possession k, in the same period, has the teams of
\* possession k swapped / kept
NextSwapped(k) ==
    (k < Len(possessions) /\ possessions[k + 1].period = possessions[k].period)
    => /\ possessions[k + 1].off_team = possessions[k].def_team
       /\ possessions[k + 1].def_team = possessions[k].off_team

NextKept(k) ==
    (k < Len(possessions) /\ possessions[k + 1].period = possessions[k].period)
    => /\ possessions[k + 1].off_team = possessions[k].off_team
       /\ possessions[k + 1].def_team = possessions[k].def_team

\* C8: every turnover ends exactly one possession, with end type turnover,
\* and the next possession of the period has offense and defense swapped.
C8_TurnoverEndsAndSwaps ==
    pc = "extracted" =>
        LET clean == Clean IN
        \A i \in 1..Len(clean) :
            clean[i].msgType = 5 =>
                /\ Cardinality(PossessionsEndingAt(i)) = 1
                /\ \A k \in PossessionsEndingAt(i) :
                      possessions[k].end_type = "turnover" /\ NextSwapped(k)

\* a possession ended by a turnover, and a later possession in its period
C8_Witness ==
    /\ pc = "extracted"
    /\ \E k \in 1..(Len(possessions) - 1) :
          /\ Clean[possessions[k].pbp_end_idx].msgType = 5
          /\ possessions[k + 1].period = possessions[k].period
          /\ possessions[k].off_team = 1

\* C9 as stated: a period end ends the possession as period_end and the game
\* end as game_end, and neither swaps the teams of the next possession.
C9_PeriodEndAndGameEndLabels ==
    pc = "extracted" =>
        LET clean == Clean IN
        \A i \in 1..Len(clean) :
            clean[i].msgType \in {12, 13} =>
                /\ Cardinality(PossessionsEndingAt(i)) = 1
                /\ \A k \in PossessionsEndingAt(i) :
                      /\ possessions[k].end_type =
                            (IF clean[i].msgType = 12 THEN "period_end" ELSE "game_end")
                      /\ NextKept(k)

\* C9 amended: every period-end or game-end event ends exactly one
\* possession, labelled period_end in both cases, and the next possession of
\* the same period keeps offense and defense.
C9_PeriodAndGameEndBothPeriodEnd ==
    pc = "extracted" =>
        LET clean == Clean IN
        \A i \in 1..Len(clean) :
            clean[i].msgType \in {12, 13} =>
                /\ Cardinality(PossessionsEndingAt(i)) = 1
                /\ \A k \in PossessionsEndingAt(i) :
                      possessions[k].end_type = "period_end" /\ NextKept(k)

\* a possession ended by the game-end event, and a later possession in its
\* period
C9_Witness ==
    /\ pc = "extracted"
    /\ \E k \in 1..(Len(possessions) - 1) :
          /\ Clean[possessions[k].pbp_end_idx].msgType = 13
          /\ possessions[k + 1].period = possessions[k].period

\* C10: in the output of either engine the possession ids are 1..n in row
\* order, and that order is the chronological order of the possession
\* starts (period, then time; the game clock runs down, the wall clock up).
C10_IdsDenseAndChronological ==
    /\ pc = "extracted" =>
          /\ \A k \in 1..Len(possessions) : possessions[k].possession_id = k
          /\ \A k \in 1..(Len(possessions) - 1) :
                \/ possessions[k].period < possessions[k + 1].period
                \/ /\ possessions[k].period = possessions[k + 1].period
                   /\ possessions[k].start_time_seconds
                         >= possessions[k + 1].start_time_seconds
    /\ pc \in {"identified", "extracted", "failed"} =>
          /\ \A k \in 1..Len(player_poss) : player_poss[k].possession_id = k
          /\ \A k \in 1..(Len(player_poss) - 1) :
                \/ player_poss[k].start_period < player_poss[k + 1].start_period
                \/ /\ player_poss[k].start_period = player_poss[k + 1].start_period
                   /\ player_poss[k].start_wallClock
                         <= player_poss[k + 1].start_wallClock

\* both engines gave three possessions or more, over two periods
C10_Witness ==
    /\ pc = "extracted"
    /\ Len(possessions) >= 3
    /\ Len(player_poss) >= 3
    /\ possessions[1].period # possessions[Len(possessions)].period
    /\ possessions[1].start_time_seconds # possessions[2].start_time_seconds
    /\ player_poss[1].start_period # player_poss[Len(player_poss)].start_period

\* C11: every possession extract_possessions returns has two different teams,
\* both teams of the log, whatever endings and swaps preceded it.
C11_OffenseDiffersFromDefense ==
    pc = "extracted" =>
        \A k \in 1..Len(possessions) :
            /\ possessions[k].off_team # possessions[k].def_team
            /\ {possessions[k].off_team, possessions[k].def_team}
                  = {pbp[i].offTeamId : i \in 1..Len(pbp)} \ {0}

\* a possession of each team on offense, after a swap
C11_Witness ==
    /\ pc = "extracted"
    /\ \E k \in 1..(Len(possessions) - 1) :
          /\ possessions[k].period = possessions[k + 1].period
          /\ possessions[k].off_team = 1
          /\ possessions[k + 1].off_team = 2

\* the possessions of a period, in output order
PossessionsOfPeriod(period) ==
    SelectSeq(possessions, LAMBDA p : p.period = period)

\* C12: in each period the first possession starts at the greatest game
\* clock of the period's plays, each later one starts at the end time of the
\* one before it, and none ends (clock running down) before it starts.
C12_PossessionsTileThePeriod ==
    pc = "extracted" =>
        LET clean == Clean IN
        \A period \in PlayPeriods :
            LET ps == PossessionsOfPeriod(period) IN
            /\ ps # <<>> =>
                  ps[1].start_time_seconds =
                      Max({clean[i].game_clock_seconds :
                              i \in {j \in 1..Len(clean) : clean[j].period = period}})
            /\ \A k \in 2..Len(ps) :
                  ps[k].start_time_seconds = ps[k - 1].end_time_seconds
            /\ \A k \in 1..Len(ps) :
                  ps[k].end_time_seconds <= ps[k].start_time_seconds

\* a period of two possessions or more whose clock moved
C12_Witness ==
    /\ pc = "extracted"
    /\ Len(PossessionsOfPeriod(1)) >= 2
    /\ PossessionsOfPeriod(1)[1].start_time_seconds = 12
    /\ PossessionsOfPeriod(1)[2].end_time_seconds = 0
    /\ PossessionsOfPeriod(1)[2].start_time_seconds = 12

\* the points of the plays 1..n of the period of possession p whose team is
\* its off_team and whose clock lies in its closed range
RECURSIVE PointsInRange(_, _, _)
PointsInRange(clean, n, p) ==
    IF n = 0 THEN 0
    ELSE PointsInRange(clean, n - 1, p)
         + (IF /\ clean[n].period = p.period
               /\ clean[n].offTeamId_clean = p.off_team
               /\ clean[n].game_clock_seconds <= p.start_time_seconds
               /\ clean[n].game_clock_seconds >= p.end_time_seconds
            THEN clean[n].pts ELSE 0)

\* C13: points_scored of a possession is the sum of pts over the plays of
\* its period whose offensive team is its off_team and whose time lies in
\* the closed range between its start and its end.
C13_PointsAreSumOverClosedRange ==
    pc = "extracted" =>
        LET clean == Clean IN
        \A k \in 1..Len(possessions) :
            possessions[k].points_scored =
                PointsInRange(clean, Len(clean), possessions[k])

\* a possession that counts points scored at its very start and end clocks
C13_Witness ==
    /\ pc = "extracted"
    /\ \E k \in 1..Len(possessions) :
          /\ possessions[k].points_scored >= 3
          /\ possessions[k].start_time_seconds > possessions[k].end_time_seconds

\* the sum of column col over the rows 1..n of a frame
RECURSIVE ColumnSum(_, _, _)
ColumnSum(rows, n, col) ==
    IF n = 0 THEN 0 ELSE ColumnSum(rows, n - 1, col) + rows[n][col]

\* C35: every scoring event is counted in the points_scored of exactly one
\* possession: the sum of points_scored over the possessions of
\* extract_possessions equals the sum of pts over the events of the log.
C35_PointsCountedOnce ==
    pc = "extracted" =>
        ColumnSum(possessions, Len(possessions), "points_scored")
            = ColumnSum(pbp, Len(pbp), "pts")

\* C36: the off_team of a possession is the offensive team of the
\* team-attributed event that ends it (made shot, terminal free throw,
\* turnover), and after a possession ended by made_shot or free_throw the
\* next possession of the period has the other team on offense.
C36_OffenseIsTeamOfEndingEvent ==
    pc = "extracted" =>
        LET clean == Clean IN
        \A k \in 1..Len(possessions) :
            /\ possessions[k].end_type \in {"made_shot", "free_throw", "turnover"}
                  => possessions[k].off_team
                        = clean[possessions[k].pbp_end_idx].offTeamId_clean
            /\ possessions[k].end_type \in {"made_shot", "free_throw"}
                  => NextSwapped(k)

\* C34: every possession of the players' _identify_possessions whose
\* offensive and defensive team are both present (not None) has
\* offensive_team different from defensive_team, also when it begins at a
\* neutral event.
C34_PlayerPossessionTeamsDiffer ==
    \A k \in 1..Len(player_poss) :
        (player_poss[k].offensive_team # NaN /\ player_poss[k].defensive_team # NaN)
            => player_poss[k].offensive_team # player_poss[k].defensive_team

-----------------------------------------------------------------------------
(* Claims about the attribution join *)

\* the team ids a possession may name
ProbeTeams == {tp[1] : tp \in TeamPairs}

\* the lineup rows of a team in a period / of a period
TeamRows(period, team_id) ==
    {lineup_states[i] : i \in {j \in 1..Len(lineup_states) :
        lineup_states[j].team_id = team_id /\ lineup_states[j].period = period}}

PeriodRows(period) ==
    {lineup_states[i] : i \in {j \in 1..Len(lineup_states) :
        lineup_states[j].period = period}}

ClocksOf(rows) == {r.game_clock_seconds : r \in rows}

\* C14: when the team has rows in the period, find_lineup_at_time returns one
\* of them whose game_clock_seconds is the least that is >= t, or, when no
\* clock is >= t, the least of all.  The join never writes lineup_states,
\* so the table is examined as the join receives it (match_idx = 0).
C14_LeastClockAtOrAfterProbe ==
    (pc = "match" /\ match_idx = 0) =>
        \A period \in Periods, t \in ProbeSeconds, team_id \in ProbeTeams :
            LET rows == TeamRows(period, team_id)
                at_or_after == {c \in ClocksOf(rows) : c >= t}
            IN rows # {} =>
                 \A found \in find_lineup_at_time(lineup_states, period, t, team_id) :
                    /\ found # <<>>
                    /\ found[1] \in rows
                    /\ found[1].game_clock_seconds =
                          (IF at_or_after # {} THEN Min(at_or_after)
                           ELSE Min(ClocksOf(rows)))

\* a possession at 4:00 joined to a team with rows at 12:00, 4:00 and 0:00
C14_Witness ==
    /\ pc = "match"
    /\ \E k \in 1..Len(matched) :
          /\ matched[k].start_time_seconds = 240
          /\ {0, 240, 720} \subseteq
                ClocksOf(TeamRows(matched[k].period, matched[k].off_team_id))

\* C15 as stated: with a non-empty lineup table, a probe that precedes every
\* row recorded for its period never gives the not-found result.
C15_EarlyProbeAlwaysResolves ==
    (pc = "match" /\ match_idx = 0 /\ lineup_states # <<>>) =>
        \A period \in Periods, t \in ProbeSeconds, team_id \in ProbeTeams :
            (\A c \in ClocksOf(PeriodRows(period)) : c < t) =>
                <<>> \notin find_lineup_at_time(lineup_states, period, t, team_id)

\* C15 amended: a probe that precedes every row of its team and period, the
\* team having a row in that period, resolves to the team's row of least
\* clock, never to the not-found result.
C15_EarlyProbeResolvesForKnownTeam ==
    (pc = "match" /\ match_idx = 0) =>
        \A period \in Periods, t \in ProbeSeconds, team_id \in ProbeTeams :
            LET rows == TeamRows(period, team_id) IN
            (rows # {} /\ \A c \in ClocksOf(rows) : c < t) =>
                \A found \in find_lineup_at_time(lineup_states, period, t, team_id) :
                    /\ found # <<>>
                    /\ found[1] \in rows
                    /\ found[1].game_clock_seconds = Min(ClocksOf(rows))

\* a possession of overtime probing at 12:00, before the 5:00 the period
\* opens with, joined to both units
C15_Witness ==
    /\ pc = "match"
    /\ \E k \in 1..Len(matched) :
          /\ matched[k].period = 5
          /\ matched[k].start_time_seconds = 720
          /\ \A c \in ClocksOf(TeamRows(5, matched[k].off_team_id)) : c < 720
          /\ Cardinality(TeamRows(5, matched[k].off_team_id)) >= 2

\* C16: find_lineup_at_time gives the not-found result exactly when the
\* table has no row of the team in the period, and a row of that team and
\* period otherwise.
C16_NotFoundIffNoRow ==
    (pc = "match" /\ match_idx = 0) =>
        \A period \in Periods, t \in ProbeSeconds, team_id \in ProbeTeams :
            \A found \in find_lineup_at_time(lineup_states, period, t, team_id) :
                IF TeamRows(period, team_id) = {}
                THEN found = <<>>
                ELSE found # <<>> /\ found[1] \in TeamRows(period, team_id)

\* a table that knows one period only, and a possession joined in it
C16_Witness ==
    /\ pc = "match"
    /\ matched # <<>>
    /\ PeriodRows(1) # {}
    /\ PeriodRows(5) = {}
    /\ TeamRows(1, 1) # {}
    /\ TeamRows(1, 2) # {}

\* possession poss is the one the step of the join handled: it is dropped
\* when a side may fail to resolve, and kept, under its own id, when both
\* sides resolve
HandledAs(poss) ==
    LET unresolved ==
            \/ <<>> \in find_lineup_at_time(lineup_states, poss.period,
                                            poss.start_time_seconds, poss.off_team)
            \/ <<>> \in find_lineup_at_time(lineup_states, poss.period,
                                            poss.start_time_seconds, poss.def_team)
    IN \/ /\ matched' = matched
          /\ unresolved
       \/ /\ Len(matched') = Len(matched) + 1
          /\ SubSeq(matched', 1, Len(matched)) = matched
          /\ LET out == matched'[Len(matched')] IN
             /\ out.possession_id = poss.possession_id
             /\ out.period = poss.period
             /\ out.start_time_seconds = poss.start_time_seconds
             /\ out.off_team_id = poss.off_team
             /\ out.def_team_id = poss.def_team
          /\ ~unresolved

FollowsSubstitutionAtSameClock(j) ==
    /\ row_origin[j].kind = "substitution"
    /\ \E i \in 1..(j - 1) :
          /\ row_origin[i].kind = "substitution"
          /\ lineup_timeline[i].team = lineup_timeline[j].team
          /\ lineup_timeline[i].period = lineup_timeline[j].period
          /\ lineup_timeline[i].game_clock_seconds = lineup_timeline[j].game_clock_seconds

\* C39: when several valid substitutions of a team share a period clock, a
\* possession that starts at or after that clock and before the team's next
\* lineup change is attributed to the lineup all of them result in, never
\* to an intermediate one.
C39_AttributedToLineupAfterAllSubstitutions ==
    \A k \in 1..Len(matched) : \A j \in 1..Len(lineup_timeline) :
        LET m == matched[k]
            row == lineup_timeline[j]
        IN (/\ FollowsSubstitutionAtSameClock(j)
            /\ row.period = m.period
            /\ LatestChangeAtProbe(j, m.start_time_seconds))
           => /\ row.team_id = m.off_team_id => m.off_players = row.players
              /\ row.team_id = m.def_team_id => m.def_players = row.players

-----------------------------------------------------------------------------
(* Claims about the court-time tracker *)

\* inputs of _build_hybrid_intervals for the box score and feed read
CourtStarters == _get_starting_lineups(box_score_df)
CourtTeamMapping == _get_team_mapping(box_score_df)
CourtSubstitutions == _get_substitution_events(pbp)
CourtActivities == _get_player_activities(pbp)

\* the events of the feed in the order the tracker reads them
CourtEvents == AllEvents(CourtActivities, CourtSubstitutions)

\* the players on court after the first n events, for a tracker that starts
\* from the starters, applies a substitution when the outgoing player is on
\* court and the incoming one is not, skips it otherwise, and lets a player
\* of a known team enter at an activity of theirs while off court
RECURSIVE OnCourtAfter(_, _)
OnCourtAfter(events, n) ==
    IF n = 0 THEN UNION {CourtStarters[t] : t \in DOMAIN CourtStarters}
    ELSE LET before == OnCourtAfter(events, n - 1)
             event == events[n]
         IN IF event.event_type = "substitution"
            THEN IF event.player_out \in before /\ event.player_in \notin before
                 THEN (before \ {event.player_out}) \cup {event.player_in}
                 ELSE before
            ELSE IF event.player_id \in DOMAIN CourtTeamMapping
                 THEN before \cup {event.player_id}
                 ELSE before

\* the intervals of the players other than player_id, without period_end
\* (the period_end of the intervals left open is the subject of C20)
OthersIntervals(ivs, player_id) ==
    LET others == SelectSeq(ivs, LAMBDA iv : iv.playerId # player_id)
    IN [k \in 1..Len(others) |->
          <<others[k].playerId, others[k].period_start, others[k].wallClock_start,
            others[k].wallClock_end>>]

\* C18: an activity of a player of a known team whom the tracker holds off
\* court (substituted out earlier, or a bench player who never entered)
\* starts an interval of that player at the time of the event, and leaves
\* the intervals of all other players as they are without the event.
C18_ActivityOffCourtStartsInterval ==
    pc = "tracked" =>
        LET events == CourtEvents IN
        \A n \in 1..Len(events) :
            (/\ events[n].event_type = "activity"
             /\ events[n].player_id \in DOMAIN CourtTeamMapping
             /\ events[n].player_id \notin OnCourtAfter(events, n - 1))
            => /\ \E k \in 1..Len(intervals) :
                    /\ intervals[k].playerId = events[n].player_id
                    /\ intervals[k].period_start = events[n].period
                    /\ intervals[k].wallClock_start = events[n].wallClockInt
               /\ OthersIntervals(intervals, events[n].player_id) =
                     OthersIntervals(
                        _build_hybrid_intervals(CourtStarters, CourtTeamMapping,
                            CourtSubstitutions,
                            SelectSeq(CourtActivities,
                                      LAMBDA a : a.playerId # events[n].player_id),
                            pbp),
                        events[n].player_id)

\* the substitutions among the first n events that pass validation
RECURSIVE ValidSubstitutions(_, _)
ValidSubstitutions(events, n) ==
    IF n = 0 THEN <<>>
    ELSE LET before == OnCourtAfter(events, n - 1)
             event == events[n]
         IN ValidSubstitutions(events, n - 1)
            \o (IF /\ event.event_type = "substitution"
                   /\ event.player_out \in before
                   /\ event.player_in \notin before
                THEN <<[period |-> event.period, wallClockInt |-> event.wallClockInt,
                        playerId1 |-> event.player_out, playerId2 |-> event.player_in]>>
                ELSE <<>>)

\* C19: substitutions that fail validation change nothing: the intervals are
\* those the tracker builds from the same feed without them.
C19_InvalidSubstitutionChangesNothing ==
    pc = "tracked" =>
        intervals =
            _build_hybrid_intervals(CourtStarters, CourtTeamMapping,
                ValidSubstitutions(CourtEvents, Len(CourtEvents)),
                CourtActivities, pbp)

\* C20: every interval left open when the feed ends is closed at the last
\* event of the game: period_end is the last period of the feed and
\* wallClock_end the last wall clock of that period.
C20_OpenIntervalsEndAtFinalEvent ==
    pc = "tracked" =>
        LET status_df == StatusChanges(CourtStarters, CourtTeamMapping,
                                       CourtSubstitutions, CourtActivities, pbp)
            closed == StatusLoop(status_df, 1, pbp[1].gameId, <<>>, <<>>).closed
        IN \A k \in (Len(closed) + 1)..Len(intervals) :
              /\ intervals[k].period_end = CourtMaxPeriod(pbp)
              /\ intervals[k].wallClock_end = GameEndWallClock(pbp)

\* (period, wall clock) a is not after (period, wall clock) b
NotAfter(period_a, wallClock_a, period_b, wallClock_b) ==
    \/ period_a < period_b
    \/ period_a = period_b /\ wallClock_a <= wallClock_b

\* interval a ends no later than interval b starts
EndsBeforeStart(a, b) ==
    NotAfter(a.period_end, a.wallClock_end, b.period_start, b.wallClock_start)

\* C21: no two intervals of one player overlap: of any two, one ends no
\* later than the other starts, by period and wall clock and by wall clock
\* alone.
C21_PlayerIntervalsDoNotOverlap ==
    pc = "tracked" =>
        \A j \in 1..Len(intervals), k \in 1..Len(intervals) :
            (j < k /\ intervals[j].playerId = intervals[k].playerId) =>
                /\ \/ EndsBeforeStart(intervals[j], intervals[k])
                   \/ EndsBeforeStart(intervals[k], intervals[j])
                /\ \/ intervals[j].wallClock_end <= intervals[k].wallClock_start
                   \/ intervals[k].wallClock_end <= intervals[j].wallClock_start

\* a player taken off and back on court: two intervals, the second of them
\* starting after the first has ended
C21_Witness ==
    /\ pc = "tracked"
    /\ \E j \in 1..Len(intervals), k \in 1..Len(intervals) :
          /\ intervals[j].playerId = intervals[k].playerId
          /\ intervals[j].wallClock_start < intervals[j].wallClock_end
          /\ intervals[j].wallClock_end < intervals[k].wallClock_start

C23_StarterCountOtherThanFiveRejected ==
    (/\ pc \in {"tracked", "failed"}
     /\ \E team_id \in DOMAIN CourtStarters : Cardinality(CourtStarters[team_id]) # 5)
    => (pc = "failed" /\ intervals = <<>>)

\* the substitutions whose two participants both have a team in the mapping
KnownSubstitutions(substitutions, team_mapping) ==
    SelectSeq(substitutions,
              LAMBDA sub : /\ sub.playerId1 \in DOMAIN team_mapping
                           /\ sub.playerId2 \in DOMAIN team_mapping)

\* C24: a substitution with a participant of no known team changes nothing
\* in track_lineup_states: no error, and the intervals are those of the
\* same feed without that substitution.
C24_UnknownParticipantChangesNothing ==
    (/\ pc \in {"tracked", "failed"}
     /\ ~PlayerActivitiesRaise(pbp))
    => /\ pc = "tracked"
       /\ intervals =
             _build_hybrid_intervals(CourtStarters, CourtTeamMapping,
                 KnownSubstitutions(CourtSubstitutions, CourtTeamMapping),
                 CourtActivities, pbp)

\* the feed holds a substitution, every substitution of it takes a player on
\* court off and puts a player off court on (playerId1 leaving, playerId2
\* entering), and every activity is of a player on court
PlainSubstitutionFeed ==
    LET events == CourtEvents IN
    /\ \E n \in 1..Len(events) : events[n].event_type = "substitution"
    /\ \A n \in 1..Len(events) :
          LET before == OnCourtAfter(events, n - 1) IN
          IF events[n].event_type = "substitution"
          THEN events[n].player_out \in before /\ events[n].player_in \notin before
          ELSE events[n].player_id \in before

\* the players track_lineup_states leaves on court when the feed ends
OnCourtAtEnd ==
    LET status_df == StatusChanges(CourtStarters, CourtTeamMapping,
                                   CourtSubstitutions, CourtActivities, pbp)
        entries == StatusLoop(status_df, 1, pbp[1].gameId, <<>>, <<>>).entries
    IN {entries[k].playerId : k \in 1..Len(entries)}

\* C37: extract_lineup_states and track_lineup_states read the same
\* participant of a substitution event as entering and the same as leaving,
\* so after the substitutions of a feed both have the same players on court.
C37_BuildersAgreeOnSubstitutionRoles ==
    (pc = "tracked" /\ Cardinality(CourtStarters[1]) = 5 /\ PlainSubstitutionFeed) =>
        LET substitutions == _parse_substitutions(pbp) IN
        /\ \A k \in 1..Len(substitutions) :
              /\ substitutions[k].player_out = CourtSubstitutions[k].playerId1
              /\ substitutions[k].player_in = CourtSubstitutions[k].playerId2
        /\ LineupAfterSubstitutions(CourtStarters[1], substitutions, Len(substitutions))
              = OnCourtAtEnd

-----------------------------------------------------------------------------
(* Claims about the rim-defense tracker *)

\* the rim shots of the feed with both teams recorded, taken against team_id
RimShotsAgainst(team_id) ==
    {i \in 1..Len(pbp) :
        /\ pbp[i].is_rim_shot
        /\ pbp[i].offTeamId # NaN
        /\ pbp[i].defTeamId = team_id}

\* an interval of the player holds the wall clock of shot i
OnCourtForShot(player_id, i) ==
    \E k \in 1..Len(intervals) :
        /\ intervals[k].playerId = player_id
        /\ intervals[k].wallClock_start <= pbp[i].wallClockInt
        /\ pbp[i].wallClockInt <= intervals[k].wallClock_end

\* the players of the interval rows
IntervalPlayers == {intervals[k].playerId : k \in 1..Len(intervals)}

\* C25: every rim shot with both teams recorded counts once for every
\* player of the defending team, on court if an interval of theirs holds the
\* shot and off court otherwise; so the two attempt counts of a player add
\* up to the rim shots taken against their team, and a player whose team
\* only shot has no count at all.
C25_EachDefenderCountedOncePerShot ==
    pc = "rim_tracked" =>
        /\ \A player_id \in IntervalPlayers :
              LET against == RimShotsAgainst(RimTeamOf(player_id))
                  rows == {k \in 1..Len(rim_defense) :
                              rim_defense[k].playerId = player_id}
              IN IF against = {}
                 THEN rows = {}
                 ELSE /\ Cardinality(rows) = 1
                      /\ \A k \in rows :
                            /\ rim_defense[k].teamId = RimTeamOf(player_id)
                            /\ rim_defense[k].rim_fga_on =
                                  Cardinality({i \in against :
                                                  OnCourtForShot(player_id, i)})
                            /\ rim_defense[k].rim_fga_off =
                                  Cardinality({i \in against :
                                                  ~OnCourtForShot(player_id, i)})
                            /\ rim_defense[k].rim_fga_on + rim_defense[k].rim_fga_off =
                                  Cardinality(against)
        /\ \A k \in 1..Len(rim_defense) : rim_defense[k].playerId \in IntervalPlayers

\* two rim shots against the team of a player who was on court for one of
\* them and off court for the other, and a player of the shooting team
C25_Witness ==
    /\ pc = "rim_tracked"
    /\ \E k \in 1..Len(rim_defense) :
          /\ rim_defense[k].rim_fga_on = 1
          /\ rim_defense[k].rim_fga_off = 1
    /\ \E player_id \in IntervalPlayers :
          \A k \in 1..Len(rim_defense) : rim_defense[k].playerId # player_id

\* C26: a bucket of no attempts has a null percentage, and the on/off
\* differential is null whenever one of the two percentages is.
C26_NullPercentageAndDifferential ==
    pc = "rim_tracked" =>
        \A k \in 1..Len(rim_defense) :
            /\ rim_defense[k].rim_fga_on = 0 => rim_defense[k].rim_fg_pct_on.null
            /\ rim_defense[k].rim_fga_off = 0 => rim_defense[k].rim_fg_pct_off.null
            /\ (rim_defense[k].rim_fg_pct_on.null \/ rim_defense[k].rim_fg_pct_off.null)
                  => rim_defense[k].rim_fg_pct_diff.null

\* C33: a stage given input that yields zero results returns an empty table
\* and does not raise; for track_rim_defense: on a log with no rim shot the
\* run ends without an exception and returns a table of no rows.
C33_NoRimShotReturnsEmptyTable ==
    (pc # "rim_feed" /\ RimShotsOf(pbp) = <<>>) =>
        /\ pc = "rim_tracked"
        /\ err = "none"
        /\ rim_defense = <<>>

\* a made rim shot against team 1 at a time of the feed
RimShotAt(period, wall_clock) ==
    [period |-> period, wallClockInt |-> wall_clock, msgType |-> 1,
     offTeamId |-> 2, defTeamId |-> 1, is_rim_shot |-> TRUE]

\* the players whose on-court bucket track_rim_defense credits for one shot,
\* given the intervals track_lineup_states returned
CreditedOnCourt(shot) ==
    LET result == track_rim_defense(<<shot>>, intervals)
    IN {result[k].playerId : k \in {j \in 1..Len(result) : result[j].rim_fga_on = 1}}

\* C38: for every rim shot, track_rim_defense credits the on-court bucket of
\* at most five players of the defending team, also for a shot at the exact
\* time of a substitution and for a shot after an inferred re-entry.
C38_AtMostFiveDefendersCredited ==
    (pc = "tracked" /\ Cardinality(CourtStarters[1]) = 5) =>
        \A n \in 1..Len(pbp) :
            Cardinality(CreditedOnCourt(RimShotAt(pbp[n].period, pbp[n].wallClockInt))) <= 5

-----------------------------------------------------------------------------
(* Claims about the lineup ratings *)

\* the possessions in which the team was the offense / the defense
OffensePossessionsOf(team) ==
    {i \in 1..Len(lineup_possessions) : lineup_possessions[i].off_team = team}
DefensePossessionsOf(team) ==
    {i \in 1..Len(lineup_possessions) : lineup_possessions[i].def_team = team}

\* the sum of a column over the rating rows of a team
RECURSIVE SumOffPoss(_, _)
SumOffPoss(ratings, team) ==
    IF ratings = <<>> THEN 0
    ELSE (IF ratings[1].team = team THEN ratings[1].off_poss ELSE 0)
         + SumOffPoss(Tail(ratings), team)

RECURSIVE SumDefPoss(_, _)
SumDefPoss(ratings, team) ==
    IF ratings = <<>> THEN 0
    ELSE (IF ratings[1].team = team THEN ratings[1].def_poss ELSE 0)
         + SumDefPoss(Tail(ratings), team)

\* C27: for every team, off_poss summed over its rating rows is the number
\* of attributed possessions it was the offense of, and def_poss summed is
\* the number it was the defense of.
C27_PossessionsConserved ==
    pc = "rated" =>
        \A team \in TeamAbbrs :
            /\ SumOffPoss(lineup_ratings, team) = Cardinality(OffensePossessionsOf(team))
            /\ SumDefPoss(lineup_ratings, team) = Cardinality(DefensePossessionsOf(team))

\* a team with more than one unit rated, on offense more often than on
\* defense
C27_Witness ==
    /\ pc = "rated"
    /\ Cardinality({g \in 1..Len(lineup_ratings) : lineup_ratings[g].team = "HOU"}) >= 2
    /\ Cardinality(OffensePossessionsOf("HOU")) = 2
    /\ Cardinality(DefensePossessionsOf("HOU")) = 1

\* the units of the attributed possessions on each side: team and the set
\* of the five players
OffenseUnits ==
    {<<lineup_possessions[i].off_team, Range(lineup_possessions[i].off_players)>> :
        i \in 1..Len(lineup_possessions)}
DefenseUnits ==
    {<<lineup_possessions[i].def_team, Range(lineup_possessions[i].def_players)>> :
        i \in 1..Len(lineup_possessions)}

\* the rating rows of a unit
RatingRowsOf(unit) ==
    {g \in 1..Len(lineup_ratings) :
        /\ lineup_ratings[g].team = unit[1]
        /\ Range(lineup_ratings[g].players) = unit[2]}

\* C28: every unit found on a side of the attributed possessions has
\* exactly one rating row, every rating row is such a unit, and a unit
\* never found on a side has possession count 0 and rating 0 on that side.
C28_OneRowPerUnitZeroFilled ==
    pc = "rated" =>
        /\ \A unit \in OffenseUnits \cup DefenseUnits :
              /\ Cardinality(RatingRowsOf(unit)) = 1
              /\ \A g \in RatingRowsOf(unit) :
                    /\ unit \notin OffenseUnits =>
                          lineup_ratings[g].off_poss = 0 /\ lineup_ratings[g].off_rating = 0
                    /\ unit \notin DefenseUnits =>
                          lineup_ratings[g].def_poss = 0 /\ lineup_ratings[g].def_rating = 0
                    /\ unit \in OffenseUnits => lineup_ratings[g].off_poss > 0
                    /\ unit \in DefenseUnits => lineup_ratings[g].def_poss > 0
        /\ \A g \in 1..Len(lineup_ratings) :
              <<lineup_ratings[g].team, Range(lineup_ratings[g].players)>>
                 \in OffenseUnits \cup DefenseUnits

\* a team with one unit found only on offense and another only on defense
C28_Witness ==
    /\ pc = "rated"
    /\ \E g \in 1..Len(lineup_ratings), h \in 1..Len(lineup_ratings) :
          /\ lineup_ratings[g].team = lineup_ratings[h].team
          /\ lineup_ratings[g].off_poss > 0
          /\ lineup_ratings[g].def_poss = 0
          /\ lineup_ratings[h].off_poss = 0
          /\ lineup_ratings[h].def_poss > 0

\* the attributed possessions a rating row stands for, on each side
OffenseRowsOf(rating) ==
    {i \in 1..Len(lineup_possessions) :
        /\ lineup_possessions[i].off_team = rating.team
        /\ Range(lineup_possessions[i].off_players) = Range(rating.players)}
DefenseRowsOf(rating) ==
    {i \in 1..Len(lineup_possessions) :
        /\ lineup_possessions[i].def_team = rating.team
        /\ Range(lineup_possessions[i].def_players) = Range(rating.players)}

\* points_scored summed over the possessions of the set rows
RECURSIVE PointsOver(_)
PointsOver(rows) ==
    IF rows = {} THEN 0
    ELSE LET i == CHOOSE j \in rows : TRUE
         IN lineup_possessions[i].points_scored + PointsOver(rows \ {i})

\* tenths is the tenth nearest to num / den (den > 0): no other tenth is
\* closer, and of two equally close tenths it is the even one
NearestTenth(tenths, num, den) ==
    LET twice_gap == 2 * (10 * num - tenths * den) IN
    /\ 0 - den <= twice_gap
    /\ twice_gap <= den
    /\ (twice_gap = den \/ twice_gap = 0 - den) => tenths % 2 = 0

\* C29: off_rating is 100 * off_points / off_poss when off_poss > 0 and 0
\* when off_poss = 0, def_rating likewise from the points allowed and
\* def_poss, and net_rating is their difference, each of the three rounded
\* to one decimal place.
C29_RatingsPer100Rounded ==
    pc = "rated" =>
        \A g \in 1..Len(lineup_ratings) :
            LET rating == lineup_ratings[g]
                off_points == PointsOver(OffenseRowsOf(rating))
                def_points == PointsOver(DefenseRowsOf(rating))
                off_num == IF rating.off_poss > 0 THEN 100 * off_points ELSE 0
                off_den == IF rating.off_poss > 0 THEN rating.off_poss ELSE 1
                def_num == IF rating.def_poss > 0 THEN 100 * def_points ELSE 0
                def_den == IF rating.def_poss > 0 THEN rating.def_poss ELSE 1
            IN /\ rating.off_poss = Cardinality(OffenseRowsOf(rating))
               /\ rating.def_poss = Cardinality(DefenseRowsOf(rating))
               /\ NearestTenth(rating.off_rating, off_num, off_den)
               /\ NearestTenth(rating.def_rating, def_num, def_den)
               /\ NearestTenth(rating.net_rating,
                               off_num * def_den - def_num * off_den,
                               off_den * def_den)
               /\ rating.off_poss = 0 => rating.off_rating = 0
               /\ rating.def_poss = 0 => rating.def_rating = 0

\* a unit whose offensive rating is not a whole number of tenths before
\* rounding (200 / 3), and a unit with a negative net rating
C29_Witness ==
    /\ pc = "rated"
    /\ \E g \in 1..Len(lineup_ratings) :
          /\ lineup_ratings[g].off_poss = 3
          /\ lineup_ratings[g].off_rating = 667
    /\ \E g \in 1..Len(lineup_ratings) : lineup_ratings[g].net_rating < 0

\* C30: a unit is its team and the sorted tuple of its five players: the
\* possessions of a rating row are exactly those of its team that list its
\* five players, in whatever column order, the row lists the players in
\* ascending order, and no two rows stand for the same team and players.
C30_UnitIsTeamAndSortedPlayers ==
    pc = "rated" =>
        /\ \A g \in 1..Len(lineup_ratings) :
              LET rating == lineup_ratings[g] IN
              /\ rating.off_poss = Cardinality(OffenseRowsOf(rating))
              /\ rating.def_poss = Cardinality(DefenseRowsOf(rating))
              /\ Len(rating.players) = 5
              /\ \A k \in 1..4 : rating.players[k] < rating.players[k + 1]
        /\ \A g \in 1..Len(lineup_ratings), h \in 1..Len(lineup_ratings) :
              (/\ lineup_ratings[g].team = lineup_ratings[h].team
               /\ Range(lineup_ratings[g].players) = Range(lineup_ratings[h].players))
              => g = h

\* two possessions of the same five players listed in different column
\* orders, counted in one row, beside a row of another unit of the team
C30_Witness ==
    /\ pc = "rated"
    /\ \E i \in 1..Len(lineup_possessions), j \in 1..Len(lineup_possessions) :
          /\ lineup_possessions[i].off_team = lineup_possessions[j].off_team
          /\ lineup_possessions[i].off_players # lineup_possessions[j].off_players
          /\ Range(lineup_possessions[i].off_players) =
                Range(lineup_possessions[j].off_players)
    /\ \E g \in 1..Len(lineup_ratings), h \in 1..Len(lineup_ratings) :
          /\ lineup_ratings[g].team = lineup_ratings[h].team
          /\ lineup_ratings[g].off_poss = 2
          /\ lineup_ratings[h].off_poss = 1

-----------------------------------------------------------------------------
(* Claims about attribution and aggregation run on given tables *)

RowsReaching(m) ==
    {g \in 1..Len(lineup_ratings) :
        lineup_ratings[g].off_poss >= m \/ lineup_ratings[g].def_poss >= m}

\* C32: filter_lineups returns exactly the rating rows with off_poss >= m or
\* def_poss >= m, each once and in the order of the table; with m = 5 a unit
\* with 3 offensive and 2 defensive possessions is removed and a unit with
\* 15 and 12 is kept.
C32_FilterKeepsRowsReachingThreshold ==
    pc = "filtered" =>
        /\ Len(filtered) = Cardinality(RowsReaching(min_possessions))
        /\ \A g \in 1..Len(lineup_ratings) :
              (g \in RowsReaching(min_possessions))
                 <=> (\E k \in 1..Len(filtered) : filtered[k] = lineup_ratings[g])
        /\ \A k \in 1..Len(filtered), l \in 1..Len(filtered) :
              k < l => \E g \in 1..Len(lineup_ratings), h \in 1..Len(lineup_ratings) :
                          /\ g < h
                          /\ lineup_ratings[g] = filtered[k]
                          /\ lineup_ratings[h] = filtered[l]
        /\ min_possessions = 5 =>
              \A g \in 1..Len(lineup_ratings) :
                 LET row == lineup_ratings[g] IN
                 /\ (row.off_poss = 3 /\ row.def_poss = 2) => row \notin Range(filtered)
                 /\ (row.off_poss = 15 /\ row.def_poss = 12) => row \in Range(filtered)

\* the table of the scenario, filtered with threshold 5: the 3/2 unit is
\* removed, the 15/12 unit is kept
C32_Witness ==
    /\ pc = "filtered"
    /\ min_possessions = 5
    /\ \E g \in 1..Len(lineup_ratings), h \in 1..Len(lineup_ratings) :
          /\ lineup_ratings[g].off_poss = 3 /\ lineup_ratings[g].def_poss = 2
          /\ lineup_ratings[h].off_poss = 15 /\ lineup_ratings[h].def_poss = 12
          /\ lineup_ratings[g] \notin Range(filtered)
          /\ lineup_ratings[h] \in Range(filtered)
    /\ \E k \in 1..Len(filtered) : filtered[k].off_poss < 5

=============================================================================
